---- MODULE Spec2Model ----
(***************************************************************************)
(* Model of flippy's dynamically triangulated surface: fp::vec3, fp::Node, *)
(* fp::Nodes, fp::Geometry and fp::Triangulation (move_node, flip_bond,    *)
(* unflip_bond, the Verlet lists and the geometry bookkeeping behind       *)
(* them), and of fp::MonteCarloUpdater, which proposes moves and flips on  *)
(* a triangulation and keeps or undoes them by the Metropolis rule.        *)
(*                                                                         *)
(* Numbers.  The template parameter Real is modelled by integers: node     *)
(* positions are integer triples, sqrt rounds down to an integer and every *)
(* division rounds down.  Per-node values are kept in fixed units so that  *)
(* the constant divisors of the code are exact: area in units of 1/8,      *)
(* volume in units of 1/24, unit_bending_energy in units of 1/100 and      *)
(* curvature_vec in units of 1/100.  Sums and differences of Geometry      *)
(* values are exact, which is the arithmetic the bookkeeping relies on.    *)
(* A Real that is no finite number (the quotient of a division by zero,    *)
(* and whatever is computed from one) is the one value not_finite.         *)
(*                                                                         *)
(* Values.  A value that an operator uses more than once is bound as the   *)
(* element of a one-element set, CHOOSE r \in {e(x) : x \in {v}} : TRUE,   *)
(* which is e(v) with v computed once.                                     *)
(*                                                                         *)
(* Indices.  Node ids and positions inside nn_ids are 0-based as in the    *)
(* code; TLA+ sequences are 1-based, so entry k of a vector v is v[k+1].   *)
(***************************************************************************)
EXTENDS Integers, Sequences, FiniteSets, TLC

(***************************************************************************)
(* Bounds of the exploration.                                              *)
(***************************************************************************)
\* number of move_node and flip_bond calls explored along one run
MaxCalls == 3

\* the number of update steps and temperature changes of one run of an updater
MaxProposals == 2

\* the largest number of subdivisions handed to triangulate_sphere_nodes
MaxIter == 120

(***************************************************************************)
(* Program constants.                                                      *)
(***************************************************************************)
\* a cutoff that lets only nodes with more than five bonds donate
BOND_DONATION_CUTOFF_plus_one == 4 + 1

\* Triangulation.hpp: a node needs more than this many bonds to donate one
BOND_DONATION_CUTOFF == 4

\* Triangulation.hpp: VERY_LARGE_NUMBER_ cast to Index.  The model's integers
\* are 32 bit wide, so the largest of them stands for the code's value; all
\* that matters is that it is no node id.
VERY_LARGE_NUMBER_ == 2147483647

\* the Real values that are no finite number: an infinity or a NaN, which is
\* what a division of Reals by zero evaluates to
not_finite == 0 - 2147483647

\* a + b and a - b on Reals
real_add(a, b) == IF a = not_finite \/ b = not_finite THEN not_finite ELSE a + b

real_subtract(a, b) == IF a = not_finite \/ b = not_finite THEN not_finite ELSE a - b

(***************************************************************************)
(* fp::vec3                                                                *)
(***************************************************************************)
vec3_add(a, b) == <<a[1] + b[1], a[2] + b[2], a[3] + b[3]>>

vec3_subtract(a, b) == <<a[1] - b[1], a[2] - b[2], a[3] - b[3]>>

vec3_neg(a) == <<0 - a[1], 0 - a[2], 0 - a[3]>>

vec3_scale(s, a) == <<s * a[1], s * a[2], s * a[3]>>

\* division of a vector by a scalar, rounding every component down
vec3_div(a, s) == <<a[1] \div s, a[2] \div s, a[3] \div s>>

dot(a, b) == a[1] * b[1] + a[2] * b[2] + a[3] * b[3]

\* vec3::cross, first with a variant whose second component has the sign of
\* the first and third
cross_with_cyclic_sign_lost(a, b) ==
    << a[2] * b[3] - a[3] * b[2],
       a[1] * b[3] - a[3] * b[1],
       a[1] * b[2] - a[2] * b[1] >>

cross(a, b) ==
    << a[2] * b[3] - a[3] * b[2],
       a[3] * b[1] - a[1] * b[3],
       a[1] * b[2] - a[2] * b[1] >>

norm_square(a) == dot(a, a)

RECURSIVE sqrt_between(_, _, _)
\* largest r in lo..hi with r*r <= n, by bisection
sqrt_between(n, lo, hi) ==
    IF lo >= hi THEN lo
    ELSE CHOOSE r \in
            { IF mid * mid <= n THEN sqrt_between(n, mid, hi)
                                ELSE sqrt_between(n, lo, mid - 1)
              : mid \in {(lo + hi + 1) \div 2} } : TRUE

\* std::sqrt, rounded down
sqrt(n) == CHOOSE r \in {sqrt_between(m, 0, 46340) : m \in {n}} : TRUE

norm(a) == sqrt(dot(a, a))

(***************************************************************************)
(* Sequence helpers standing for std::find, vector::emplace, vector::erase *)
(***************************************************************************)
\* std::find(v.begin(), v.end(), el) - v.begin(): 0-based position of the
\* first occurrence of el, Len(v) when el is absent
find(v, el) ==
    IF \E k \in 1..Len(v) : v[k] = el
    THEN (CHOOSE k \in 1..Len(v) : v[k] = el /\ \A m \in 1..(k - 1) : v[m] # el) - 1
    ELSE Len(v)

is_member(v, el) == \E k \in 1..Len(v) : v[k] = el

\* v.emplace(v.begin() + idx, el), 0-based idx <= Len(v)
vector_emplace(v, idx, el) ==
    SubSeq(v, 1, idx) \o <<el>> \o SubSeq(v, idx + 1, Len(v))

\* v.erase(v.begin() + idx), 0-based idx < Len(v)
vector_erase(v, idx) ==
    SubSeq(v, 1, idx) \o SubSeq(v, idx + 2, Len(v))

(***************************************************************************)
(* fp::Node                                                                *)
(***************************************************************************)
\* Node::pop_nn: erase the first occurrence of the id and the distance at
\* the same position; silently nothing when the id is absent
pop_nn(node_in, to_pop_nn_id) ==
    CHOOSE popped \in
        { IF dist # Len(node.nn_ids)
          THEN [node EXCEPT !.nn_ids = vector_erase(node.nn_ids, dist),
                            !.nn_distances = vector_erase(node.nn_distances, dist)]
          ELSE node
          : <<node, dist>> \in {<<n, find(n.nn_ids, to_pop_nn_id)>> : n \in {node_in}} } : TRUE

\* Node::emplace_nn_id: emplace id and distance before position loc_idx,
\* nothing when loc_idx is not a position of nn_ids; first a variant that
\* puts the distance at the end of nn_distances
emplace_nn_id_distance_at_end(node_in, to_emplace_nn_id, to_emplace_nn_pos, loc_idx_in) ==
    CHOOSE emplaced \in
        { IF loc_idx < Len(node.nn_ids)
          THEN [node EXCEPT
                  !.nn_ids = vector_emplace(node.nn_ids, loc_idx, to_emplace_nn_id),
                  !.nn_distances = Append(node.nn_distances,
                                          vec3_subtract(to_emplace_nn_pos, node.pos))]
          ELSE node
          : node \in {node_in}, loc_idx \in {loc_idx_in} } : TRUE

emplace_nn_id(node_in, to_emplace_nn_id, to_emplace_nn_pos, loc_idx_in) ==
    CHOOSE emplaced \in
        { IF loc_idx < Len(node.nn_ids)
          THEN [node EXCEPT
                  !.nn_ids = vector_emplace(node.nn_ids, loc_idx, to_emplace_nn_id),
                  !.nn_distances = vector_emplace(node.nn_distances, loc_idx,
                                                  vec3_subtract(to_emplace_nn_pos, node.pos))]
          ELSE node
          : node \in {node_in}, loc_idx \in {loc_idx_in} } : TRUE

(***************************************************************************)
(* fp::Neighbors and fp::Geometry                                          *)
(***************************************************************************)
plus_one(j, ring_size) == IF j < ring_size - 1 THEN j + 1 ELSE 0

minus_one(j, ring_size) == IF j = 0 THEN ring_size - 1 ELSE j - 1

Geometry_empty == [area |-> 0, volume |-> 0, unit_bending_energy |-> 0]

Geometry_of_node(node) ==
    [area |-> node.area, volume |-> node.volume,
     unit_bending_energy |-> node.unit_bending_energy]

Geometry_plus(lhs_in, rhs_in) ==
    CHOOSE sum \in
        { [area |-> real_add(lhs.area, rhs.area),
           volume |-> real_add(lhs.volume, rhs.volume),
           unit_bending_energy |->
               real_add(lhs.unit_bending_energy, rhs.unit_bending_energy)]
          : lhs \in {lhs_in}, rhs \in {rhs_in} } : TRUE

Geometry_minus(lhs_in, rhs_in) ==
    CHOOSE difference \in
        { [area |-> real_subtract(lhs.area, rhs.area),
           volume |-> real_subtract(lhs.volume, rhs.volume),
           unit_bending_energy |->
               real_subtract(lhs.unit_bending_energy, rhs.unit_bending_energy)]
          : lhs \in {lhs_in}, rhs \in {rhs_in} } : TRUE

(***************************************************************************)
(* fp::Triangulation: geometry of one node                                 *)
(***************************************************************************)
\* the distance vectors from node_id to the entries of its ring, in ring order
nn_distance_vectors(nodes, node_id, upto) ==
    [k \in 1..upto |->
        vec3_subtract(nodes[nodes[node_id].nn_ids[k]].pos, nodes[node_id].pos)]

\* refresh nn_distances[k] = pos(nn_ids[k]) - pos(node) for every position k
update_nn_distance_vectors(nodes_in, node_id) ==
    CHOOSE refreshed \in
        { [nodes EXCEPT ![node_id].nn_distances =
              nn_distance_vectors(nodes, node_id, Len(nodes[node_id].nn_ids))]
          : nodes \in {nodes_in} } : TRUE

\* initiate_distance_vectors: resize every nn_distances to its ring, then refresh
initiate_distance_vectors(nodes_in) ==
    CHOOSE initiated \in
        { [i \in DOMAIN nodes |->
              [nodes[i] EXCEPT !.nn_distances =
                  nn_distance_vectors(nodes, i, Len(nodes[i].nn_ids))]]
          : nodes \in {nodes_in} } : TRUE

\* mixed_area in units of 1/8.  The two cotangents are the fractions
\* dot_at_j / face_normal_norm and dot_at_j_p_1 / face_normal_norm (both cross
\* products in cot_between_vectors have the norm of the face normal), and
\* triangle_area is face_normal_norm / 2.
mixed_area(lij, lij_p_1, face_normal_norm, dot_at_j, dot_at_j_p_1) ==
    IF dot_at_j > 0 /\ dot_at_j_p_1 > 0
    THEN IF dot(lij, lij_p_1) > 0
         THEN (dot_at_j_p_1 * dot(lij, lij) + dot_at_j * dot(lij_p_1, lij_p_1))
                  \div face_normal_norm
         ELSE 2 * face_normal_norm
    ELSE face_normal_norm

\* the contribution of the triangle (node, nn j, nn j+1) to the three sums of
\* update_bulk_node_geometry.  A triangle without area (face_normal_norm = 0)
\* has face_area 0 and divides by zero in its two other terms: `degenerate`
face_terms(nn_distances, j) ==
    CHOOSE terms \in
        { LET ljj_p_1 == vec3_subtract(lij_p_1, lij)
              dot_at_j == dot(lij, vec3_neg(ljj_p_1))
              dot_at_j_p_1 == dot(lij_p_1, ljj_p_1)
              face_normal == cross(lij, lij_p_1)
              face_area == mixed_area(lij, lij_p_1, face_normal_norm, dot_at_j, dot_at_j_p_1)
          IN  IF face_normal_norm = 0
              THEN [area |-> face_area, normal |-> <<0, 0, 0>>,
                    curvature |-> <<0, 0, 0>>, degenerate |-> TRUE]
              ELSE [area |-> face_area,
                    normal |-> vec3_div(vec3_scale(face_area, face_normal),
                                        face_normal_norm),
                    curvature |-> vec3_div(vec3_add(vec3_scale(dot_at_j_p_1, lij),
                                                    vec3_scale(dot_at_j, lij_p_1)),
                                           face_normal_norm),
                    degenerate |-> FALSE]
          : <<lij, lij_p_1, face_normal_norm>> \in
                { <<l0, l1, norm(cross(l0, l1))>>
                  : l0 \in {nn_distances[j + 1]},
                    l1 \in {nn_distances[plus_one(j, Len(nn_distances)) + 1]} } } : TRUE

RECURSIVE face_sums(_, _)
\* the loop of update_bulk_node_geometry over j = 0 .. upto-1
face_sums(nn_distances, upto) ==
    IF upto = 0
    THEN [area_sum |-> 0, face_normal_sum |-> <<0, 0, 0>>,
          local_curvature_vec |-> <<0, 0, 0>>, degenerate |-> FALSE]
    ELSE CHOOSE sums \in
            { [area_sum |-> before.area_sum + t.area,
               face_normal_sum |-> vec3_add(before.face_normal_sum, t.normal),
               local_curvature_vec |-> vec3_subtract(before.local_curvature_vec, t.curvature),
               degenerate |-> before.degenerate \/ t.degenerate]
              : before \in {face_sums(nn_distances, upto - 1)},
                t \in {face_terms(nn_distances, upto - 1)} } : TRUE

\* with a triangle without area in the ring, face_normal_sum and
\* local_curvature_vec are not finite and so is all that is computed from
\* them; with area_sum = 0 the two quotients by area_sum are not finite
update_bulk_node_geometry(nodes_in, node_id) ==
    CHOOSE updated \in
        { [refreshed EXCEPT
              ![node_id].area = s.area_sum,
              ![node_id].volume =
                  IF s.degenerate THEN not_finite
                  ELSE dot(refreshed[node_id].pos, s.face_normal_sum) \div 3,
              ![node_id].curvature_vec =
                  IF s.degenerate \/ s.area_sum = 0
                  THEN <<not_finite, not_finite, not_finite>>
                  ELSE vec3_div(vec3_scale(0 - 400, s.local_curvature_vec), s.area_sum),
              ![node_id].unit_bending_energy =
                  IF s.degenerate \/ s.area_sum = 0 THEN not_finite
                  ELSE (100 * dot(s.local_curvature_vec, s.local_curvature_vec))
                           \div s.area_sum]
          : <<refreshed, s>> \in
                { <<r, face_sums(r[node_id].nn_distances, Len(r[node_id].nn_ids))>>
                  : r \in {update_nn_distance_vectors(nodes_in, node_id)} } } : TRUE

\* update_boundary_node_geometry that leaves the boundary node alone
update_boundary_node_geometry_leaving_distances(nodes, node_id) == nodes

update_boundary_node_geometry(nodes, node_id) ==
    update_nn_distance_vectors(nodes, node_id)

(***************************************************************************)
(* fp::Triangulation: topology helpers.  In the operators below `this` is  *)
(* the record of the data members of one Triangulation object.             *)
(***************************************************************************)
\* number of copies of id in the vector v
count_in(v, id) == Cardinality({k \in 1..Len(v) : v[k] = id})

\* common_neighbours(...).size(): both rings are sorted and intersected with
\* std::set_intersection, which keeps an id found m times in one ring and n
\* times in the other min(m, n) times
common_neighbours_size(nodes_in, node_id_0, node_id_1) ==
    CHOOSE size \in
        { LET ids == {nn_ids0[k] : k \in 1..Len(nn_ids0)}
              RECURSIVE total(_)
              total(S) ==
                  IF S = {} THEN 0
                  ELSE CHOOSE sum \in
                          { (IF count_in(nn_ids0, id) < count_in(nn_ids1, id)
                             THEN count_in(nn_ids0, id) ELSE count_in(nn_ids1, id))
                            + total(S \ {id})
                            : id \in {CHOOSE x \in S : TRUE} } : TRUE
          IN  total(ids)
          : <<nn_ids0, nn_ids1>> \in
                {<<nodes[node_id_0].nn_ids, nodes[node_id_1].nn_ids>> : nodes \in {nodes_in}} }
        : TRUE

previous_and_next_neighbour_local_ids(nodes, node_id, nn_id) ==
    CHOOSE neighbors \in
        { [j_m_1 |-> minus_one(find(nn_ids_view, nn_id), Len(nn_ids_view)),
           j_p_1 |-> plus_one(find(nn_ids_view, nn_id), Len(nn_ids_view))]
          : nn_ids_view \in {nodes[node_id].nn_ids} } : TRUE

previous_and_next_neighbour_global_ids(nodes, node_id, nn_id) ==
    CHOOSE neighbors_global \in
        { [j_m_1 |-> nn_ids_view[neighbors.j_m_1 + 1],
           j_p_1 |-> nn_ids_view[neighbors.j_p_1 + 1]]
          : nn_ids_view \in {nodes[node_id].nn_ids},
            neighbors \in {previous_and_next_neighbour_local_ids(nodes, node_id, nn_id)} }
        : TRUE

\* emplace_before that emplaces behind the anchor
emplace_behind_anchor(nodes_in, center_node_id, anchor_id, new_value) ==
    CHOOSE emplaced \in
        { [nodes EXCEPT ![center_node_id] =
              emplace_nn_id(nodes[center_node_id], new_value, nodes[new_value].pos,
                            find(nodes[center_node_id].nn_ids, anchor_id) + 1)]
          : nodes \in {nodes_in} } : TRUE

\* emplace new_value into the ring of center_node_id before anchor_id
emplace_before(nodes_in, center_node_id, anchor_id, new_value) ==
    CHOOSE emplaced \in
        { [nodes EXCEPT ![center_node_id] =
              emplace_nn_id(nodes[center_node_id], new_value, nodes[new_value].pos,
                            find(nodes[center_node_id].nn_ids, anchor_id))]
          : nodes \in {nodes_in} } : TRUE

\* delete_connection_between_nodes_of_old_edge that pops on one side only
delete_connection_on_one_side(nodes_in, old_node_id0, old_node_id1) ==
    CHOOSE popped \in
        { [nodes EXCEPT ![old_node_id0] = pop_nn(nodes[old_node_id0], old_node_id1)]
          : nodes \in {nodes_in} } : TRUE

delete_connection_between_nodes_of_old_edge(nodes_in, old_node_id0, old_node_id1) ==
    CHOOSE popped \in
        { [nodes EXCEPT ![old_node_id0] = pop_nn(nodes[old_node_id0], old_node_id1),
                        ![old_node_id1] = pop_nn(nodes[old_node_id1], old_node_id0)]
          : nodes \in {nodes_in} } : TRUE

BondFlipData_default ==
    [flipped |-> FALSE, common_nn_0 |-> VERY_LARGE_NUMBER_, common_nn_1 |-> VERY_LARGE_NUMBER_]

\* flip_bond_unchecked that keeps the old bond
flip_bond_unchecked_keeping_old_edge(nodes, node_id, nn_id, common_nn_j_m_1, common_nn_j_p_1) ==
    [nodes |-> emplace_before(emplace_before(nodes, common_nn_j_m_1, node_id, common_nn_j_p_1),
                              common_nn_j_p_1, nn_id, common_nn_j_m_1),
     bfd |-> [flipped |-> TRUE, common_nn_0 |-> common_nn_j_m_1,
              common_nn_1 |-> common_nn_j_p_1]]

\* flip_bond_unchecked that takes nn_id for the anchor in the first ring
flip_bond_unchecked_wrong_anchor(nodes, node_id, nn_id, common_nn_j_m_1, common_nn_j_p_1) ==
    [nodes |-> delete_connection_between_nodes_of_old_edge(
                   emplace_before(emplace_before(nodes, common_nn_j_m_1, nn_id, common_nn_j_p_1),
                                  common_nn_j_p_1, nn_id, common_nn_j_m_1),
                   node_id, nn_id),
     bfd |-> [flipped |-> TRUE, common_nn_0 |-> common_nn_j_m_1,
              common_nn_1 |-> common_nn_j_p_1]]

\* the rewrite of the four rings; returns the new nodes and the BondFlipData
flip_bond_unchecked(nodes, node_id, nn_id, common_nn_j_m_1, common_nn_j_p_1) ==
    [nodes |-> delete_connection_between_nodes_of_old_edge(
                   emplace_before(emplace_before(nodes, common_nn_j_m_1, node_id, common_nn_j_p_1),
                                  common_nn_j_p_1, nn_id, common_nn_j_m_1),
                   node_id, nn_id),
     bfd |-> [flipped |-> TRUE, common_nn_0 |-> common_nn_j_m_1,
              common_nn_1 |-> common_nn_j_p_1]]

(***************************************************************************)
(* fp::Triangulation: geometry of patches and the global geometry          *)
(***************************************************************************)
RECURSIVE sum_over_ring(_, _, _)
\* the loop of get_two_ring_geometry over the first upto ring entries
sum_over_ring(nodes, nn_ids, upto) ==
    IF upto = 0 THEN Geometry_empty
    ELSE Geometry_plus(sum_over_ring(nodes, nn_ids, upto - 1),
                       Geometry_of_node(nodes[nn_ids[upto]]))

\* get_two_ring_geometry that leaves the node itself out of the sum
get_two_ring_geometry_without_center(nodes_in, node_id) ==
    CHOOSE sum \in
        { sum_over_ring(nodes, nodes[node_id].nn_ids, Len(nodes[node_id].nn_ids))
          : nodes \in {nodes_in} } : TRUE

get_two_ring_geometry(nodes_in, node_id) ==
    CHOOSE sum \in
        { Geometry_plus(Geometry_of_node(nodes[node_id]),
                        sum_over_ring(nodes, nodes[node_id].nn_ids, Len(nodes[node_id].nn_ids)))
          : nodes \in {nodes_in} } : TRUE

calculate_diamond_geometry(nodes_in, node_id, nn_id, cnn_0, cnn_1) ==
    CHOOSE sum \in
        { Geometry_plus(Geometry_plus(Geometry_plus(Geometry_of_node(nodes[node_id]),
                                                    Geometry_of_node(nodes[nn_id])),
                                      Geometry_of_node(nodes[cnn_0])),
                        Geometry_of_node(nodes[cnn_1]))
          : nodes \in {nodes_in} } : TRUE

update_diamond_geometry(nodes, node_id, nn_id, cnn_0, cnn_1) ==
    update_bulk_node_geometry(
        update_bulk_node_geometry(
            update_bulk_node_geometry(
                update_bulk_node_geometry(nodes, node_id), nn_id), cnn_0), cnn_1)

RECURSIVE update_ring_bulk(_, _, _)
\* the loop of update_two_ring_geometry_on_a_boundary_free_triangulation
update_ring_bulk(nodes, nn_ids, upto) ==
    IF upto = 0 THEN nodes
    ELSE update_bulk_node_geometry(update_ring_bulk(nodes, nn_ids, upto - 1), nn_ids[upto])

update_two_ring_geometry_on_a_boundary_free_triangulation(nodes, node_id) ==
    CHOOSE updated \in
        { update_ring_bulk(center, center[node_id].nn_ids, Len(center[node_id].nn_ids))
          : center \in {update_bulk_node_geometry(nodes, node_id)} } : TRUE

RECURSIVE update_ring_with_boundary(_, _, _, _)
\* the loop of update_two_ring_geometry_on_a_boundary_triangulation
update_ring_with_boundary(nodes, boundary, nn_ids, upto) ==
    IF upto = 0 THEN nodes
    ELSE IF nn_ids[upto] \in boundary
    THEN update_boundary_node_geometry(
             update_ring_with_boundary(nodes, boundary, nn_ids, upto - 1), nn_ids[upto])
    ELSE update_bulk_node_geometry(
             update_ring_with_boundary(nodes, boundary, nn_ids, upto - 1), nn_ids[upto])

update_two_ring_geometry_on_a_boundary_triangulation(nodes, boundary, node_id) ==
    CHOOSE updated \in
        { update_ring_with_boundary(center, boundary, center[node_id].nn_ids,
                                    Len(center[node_id].nn_ids))
          : center \in {IF node_id \in boundary
                        THEN update_boundary_node_geometry(nodes, node_id)
                        ELSE update_bulk_node_geometry(nodes, node_id)} } : TRUE

update_two_ring_geometry(this, node_id) ==
    IF this.triangulation_type = "SPHERICAL_TRIANGULATION"
    THEN update_two_ring_geometry_on_a_boundary_free_triangulation(this.nodes_, node_id)
    ELSE update_two_ring_geometry_on_a_boundary_triangulation(
             this.nodes_, this.boundary_nodes_ids_set_, node_id)

\* global_geometry_ += lg_new - lg_old
update_global_geometry(global_geometry, lg_old, lg_new) ==
    Geometry_plus(global_geometry, Geometry_minus(lg_new, lg_old))

RECURSIVE make_global_geometry_upto(_, _)
\* make_global_geometry over the node ids 0 .. upto-1: bulk nodes get their
\* geometry computed, boundary nodes only their distance vectors, and every
\* node is added to the global geometry
make_global_geometry_upto(this, upto) ==
    IF upto = 0 THEN [this EXCEPT !.global_geometry_ = Geometry_empty]
    ELSE CHOOSE made \in
            { [before EXCEPT
                  !.nodes_ = updated,
                  !.global_geometry_ = update_global_geometry(
                      before.global_geometry_, Geometry_empty,
                      Geometry_of_node(updated[upto - 1]))]
              : <<before, updated>> \in
                    { <<b, IF (upto - 1) \in b.boundary_nodes_ids_set_
                           THEN update_boundary_node_geometry(b.nodes_, upto - 1)
                           ELSE update_bulk_node_geometry(b.nodes_, upto - 1)>>
                      : b \in {make_global_geometry_upto(this, upto - 1)} } } : TRUE

make_global_geometry(this_in) ==
    CHOOSE made \in
        { make_global_geometry_upto(this, Cardinality(DOMAIN this.nodes_))
          : this \in {this_in} } : TRUE

\* set_verlet_radius(R)
set_verlet_radius(this, R) ==
    [this EXCEPT !.verlet_radius = R, !.verlet_radius_squared = R * R]

RECURSIVE verlet_list_inner_loop(_, _, _, _)
\* the inner loop of make_verlet_list for the node node_p over the nodes
\* 0 .. upto-1 before it: a pair closer than the radius is pushed onto the
\* back of both lists
verlet_list_inner_loop(nodes, radius_squared, node_p, upto) ==
    IF upto = 0 THEN nodes
    ELSE CHOOSE pushed \in
            { IF norm_square(vec3_subtract(before[node_p].pos, before[upto - 1].pos))
                     < radius_squared
              THEN [before EXCEPT ![node_p].verlet_list = Append(@, upto - 1),
                                  ![upto - 1].verlet_list = Append(@, node_p)]
              ELSE before
              : before \in {verlet_list_inner_loop(nodes, radius_squared, node_p, upto - 1)} }
            : TRUE

RECURSIVE verlet_list_outer_loop(_, _, _)
\* the outer loop of make_verlet_list over the nodes 0 .. upto-1
verlet_list_outer_loop(nodes, radius_squared, upto) ==
    IF upto = 0 THEN nodes
    ELSE CHOOSE looped \in
            { verlet_list_inner_loop(before, radius_squared, upto - 1, upto - 1)
              : before \in {verlet_list_outer_loop(nodes, radius_squared, upto - 1)} }
            : TRUE

\* make_verlet_list that pushes onto the lists of the last build
make_verlet_list_without_clear(this_in) ==
    CHOOSE made \in
        { [this EXCEPT !.nodes_ =
              verlet_list_outer_loop(this.nodes_, this.verlet_radius_squared,
                                     Cardinality(DOMAIN this.nodes_))]
          : this \in {this_in} } : TRUE

\* make_verlet_list: clear every list, then fill them pair by pair
make_verlet_list(this_in) ==
    CHOOSE made \in
        { [this EXCEPT !.nodes_ =
              verlet_list_outer_loop(
                  [i \in DOMAIN this.nodes_ |-> [this.nodes_[i] EXCEPT !.verlet_list = <<>>]],
                  this.verlet_radius_squared, Cardinality(DOMAIN this.nodes_))]
          : this \in {this_in} } : TRUE

initiate_advanced_geometry(this_in) ==
    CHOOSE initiated \in
        { make_verlet_list(
              set_verlet_radius(
                  make_global_geometry(
                      [this EXCEPT !.nodes_ = initiate_distance_vectors(this.nodes_)]),
                  this.verlet_radius))
          : this \in {this_in} } : TRUE

(***************************************************************************)
(* fp::Triangulation: the public mutators.  Each returns the record of the *)
(* data members after the call (`this`), flip_bond also the BondFlipData   *)
(* it returns and, as `path`, the name of the branch that was taken.       *)
(***************************************************************************)
\* move_node that displaces the first neighbour of the node
move_node_displacing_a_neighbour(this_in, node_id, displacement_vector) ==
    CHOOSE moved \in
        { [this EXCEPT
              !.nodes_ = updated,
              !.pre_update_geometry = pre,
              !.post_update_geometry = get_two_ring_geometry(updated, node_id),
              !.global_geometry_ =
                  update_global_geometry(this.global_geometry_, pre,
                                         get_two_ring_geometry(updated, node_id))]
          : <<this, pre, updated>> \in
                { <<t, get_two_ring_geometry(t.nodes_, node_id),
                    update_two_ring_geometry(
                        [t EXCEPT !.nodes_[t.nodes_[node_id].nn_ids[1]].pos =
                                      vec3_add(@, displacement_vector)],
                        node_id)>>
                  : t \in {this_in} } } : TRUE

\* move_node that updates the geometry of the two ring before it displaces
move_node_updating_before_displacing(this_in, node_id, displacement_vector) ==
    CHOOSE moved \in
        { [this EXCEPT
              !.nodes_ = [updated EXCEPT ![node_id].pos = vec3_add(@, displacement_vector)],
              !.pre_update_geometry = pre,
              !.post_update_geometry = get_two_ring_geometry(updated, node_id),
              !.global_geometry_ =
                  update_global_geometry(this.global_geometry_, pre,
                                         get_two_ring_geometry(updated, node_id))]
          : <<this, pre, updated>> \in
                { <<t, get_two_ring_geometry(t.nodes_, node_id),
                    update_two_ring_geometry(t, node_id)>>
                  : t \in {this_in} } } : TRUE

move_node(this_in, node_id, displacement_vector) ==
    CHOOSE moved \in
        { [this EXCEPT
              !.nodes_ = updated,
              !.pre_update_geometry = pre,
              !.post_update_geometry = get_two_ring_geometry(updated, node_id),
              !.global_geometry_ =
                  update_global_geometry(this.global_geometry_, pre,
                                         get_two_ring_geometry(updated, node_id))]
          : <<this, pre, updated>> \in
                { <<t, get_two_ring_geometry(t.nodes_, node_id),
                    update_two_ring_geometry(
                        [t EXCEPT !.nodes_[node_id].pos = vec3_add(@, displacement_vector)],
                        node_id)>>
                  : t \in {this_in} } } : TRUE

\* the part of flip_bulk_bond and flip_bond_in_quadrilateral behind the
\* conditions on the bond as it is: the rewrite, the condition on the new
\* bond, and either the update of the geometry or the rewrite back
flip_and_keep_or_roll_back(this, node_id, nn_id, common_nns) ==
    CHOOSE result \in
        { IF common_neighbours_size(tentative.nodes, tentative.bfd.common_nn_0,
                                    tentative.bfd.common_nn_1) = 2
          THEN CHOOSE kept \in
                  { [this |-> [this EXCEPT
                                 !.nodes_ = updated,
                                 !.pre_update_geometry = pre,
                                 !.post_update_geometry = post,
                                 !.global_geometry_ =
                                     update_global_geometry(this.global_geometry_, pre, post)],
                     bfd |-> tentative.bfd, path |-> "flipped"]
                    : <<updated, post>> \in
                          { <<u, calculate_diamond_geometry(u, node_id, nn_id,
                                     common_nns.j_m_1, common_nns.j_p_1)>>
                            : u \in {update_diamond_geometry(tentative.nodes, node_id, nn_id,
                                         common_nns.j_m_1, common_nns.j_p_1)} } } : TRUE
          ELSE [this |-> [this EXCEPT
                            !.nodes_ = flip_bond_unchecked(
                                           tentative.nodes, tentative.bfd.common_nn_0,
                                           tentative.bfd.common_nn_1, nn_id, node_id).nodes,
                            !.pre_update_geometry = pre],
                bfd |-> [tentative.bfd EXCEPT !.flipped = FALSE], path |-> "rollback"]
          : pre \in {calculate_diamond_geometry(this.nodes_, node_id, nn_id,
                                                common_nns.j_m_1, common_nns.j_p_1)},
            tentative \in {flip_bond_unchecked(this.nodes_, node_id, nn_id,
                                               common_nns.j_m_1, common_nns.j_p_1)} } : TRUE

flip_bond_in_quadrilateral(this_in, node_id, nn_id, common_nns_in, min_bond_length_square, max_bond_length_square) ==
    CHOOSE result \in
        { IF ~(bond_length_square < max_bond_length_square
               /\ bond_length_square > min_bond_length_square)
          THEN [this |-> this, bfd |-> BondFlipData_default, path |-> "length"]
          ELSE IF common_neighbours_size(this.nodes_, node_id, nn_id) # 2
          THEN [this |-> this, bfd |-> BondFlipData_default, path |-> "common"]
          ELSE flip_and_keep_or_roll_back(this, node_id, nn_id, common_nns)
          : <<this, common_nns, bond_length_square>> \in
                { <<t, c, norm_square(vec3_subtract(t.nodes_[c.j_m_1].pos,
                                                    t.nodes_[c.j_p_1].pos))>>
                  : t \in {this_in}, c \in {common_nns_in} } } : TRUE

\* flip_bulk_bond that keeps the bond length condition and drops the
\* conditions on the topology
flip_bulk_bond_without_topology_conditions(this_in, node_id, nn_id, min_bond_length_square, max_bond_length_square) ==
    CHOOSE result \in
        { IF ~(bond_length_square < max_bond_length_square
               /\ bond_length_square > min_bond_length_square)
          THEN [this |-> this, bfd |-> BondFlipData_default, path |-> "length"]
          ELSE CHOOSE kept \in
                  { [this |-> [this EXCEPT
                                 !.nodes_ = updated,
                                 !.pre_update_geometry =
                                     calculate_diamond_geometry(this.nodes_, node_id, nn_id,
                                         common_nns.j_m_1, common_nns.j_p_1),
                                 !.post_update_geometry =
                                     calculate_diamond_geometry(updated, node_id, nn_id,
                                         common_nns.j_m_1, common_nns.j_p_1),
                                 !.global_geometry_ =
                                     update_global_geometry(
                                         this.global_geometry_,
                                         calculate_diamond_geometry(this.nodes_, node_id, nn_id,
                                             common_nns.j_m_1, common_nns.j_p_1),
                                         calculate_diamond_geometry(updated, node_id, nn_id,
                                             common_nns.j_m_1, common_nns.j_p_1))],
                     bfd |-> [flipped |-> TRUE, common_nn_0 |-> common_nns.j_m_1,
                              common_nn_1 |-> common_nns.j_p_1],
                     path |-> "flipped"]
                    : updated \in
                          {update_diamond_geometry(
                               flip_bond_unchecked(this.nodes_, node_id, nn_id,
                                   common_nns.j_m_1, common_nns.j_p_1).nodes,
                               node_id, nn_id, common_nns.j_m_1, common_nns.j_p_1)} } : TRUE
          : <<this, common_nns, bond_length_square>> \in
                { <<t, c, norm_square(vec3_subtract(t.nodes_[c.j_m_1].pos,
                                                    t.nodes_[c.j_p_1].pos))>>
                  : <<t, c>> \in
                        { <<t0, previous_and_next_neighbour_global_ids(t0.nodes_, node_id, nn_id)>>
                          : t0 \in {this_in} } } } : TRUE

flip_bulk_bond(this_in, node_id, nn_id, min_bond_length_square, max_bond_length_square) ==
    CHOOSE result \in
        { IF ~(Len(this.nodes_[node_id].nn_ids) > BOND_DONATION_CUTOFF)
          THEN [this |-> this, bfd |-> BondFlipData_default, path |-> "degree"]
          ELSE IF ~(Len(this.nodes_[nn_id].nn_ids) > BOND_DONATION_CUTOFF)
          THEN [this |-> this, bfd |-> BondFlipData_default, path |-> "degree"]
          ELSE IF ~(bond_length_square < max_bond_length_square
                    /\ bond_length_square > min_bond_length_square)
          THEN [this |-> this, bfd |-> BondFlipData_default, path |-> "length"]
          ELSE IF common_neighbours_size(this.nodes_, node_id, nn_id) # 2
          THEN [this |-> this, bfd |-> BondFlipData_default, path |-> "common"]
          ELSE flip_and_keep_or_roll_back(this, node_id, nn_id, common_nns)
          : <<this, common_nns, bond_length_square>> \in
                { <<t, c, norm_square(vec3_subtract(t.nodes_[c.j_m_1].pos,
                                                    t.nodes_[c.j_p_1].pos))>>
                  : <<t, c>> \in
                        { <<t0, previous_and_next_neighbour_global_ids(t0.nodes_, node_id, nn_id)>>
                          : t0 \in {this_in} } } } : TRUE

\* flip_bond without the test of node_id and nn_id against the boundary
flip_bond_without_test_of_bond_ends(this_in, node_id, nn_id, min_bond_length_square, max_bond_length_square) ==
    CHOOSE result \in
        { IF this.triangulation_type = "SPHERICAL_TRIANGULATION"
          THEN flip_bulk_bond(this, node_id, nn_id,
                              min_bond_length_square, max_bond_length_square)
          ELSE IF common_nns.j_m_1 \in this.boundary_nodes_ids_set_
                  \/ common_nns.j_p_1 \in this.boundary_nodes_ids_set_
          THEN [this |-> this, bfd |-> BondFlipData_default, path |-> "boundary"]
          ELSE flip_bond_in_quadrilateral(this, node_id, nn_id, common_nns,
                                          min_bond_length_square, max_bond_length_square)
          : <<this, common_nns>> \in
                { <<t, previous_and_next_neighbour_global_ids(t.nodes_, node_id, nn_id)>>
                  : t \in {this_in} } } : TRUE

flip_bond(this_in, node_id, nn_id, min_bond_length_square, max_bond_length_square) ==
    CHOOSE result \in
        { IF this.triangulation_type = "SPHERICAL_TRIANGULATION"
          THEN flip_bulk_bond(this, node_id, nn_id,
                              min_bond_length_square, max_bond_length_square)
          ELSE IF node_id \in this.boundary_nodes_ids_set_
                  \/ nn_id \in this.boundary_nodes_ids_set_
          THEN [this |-> this, bfd |-> BondFlipData_default, path |-> "boundary"]
          ELSE IF common_nns.j_m_1 \in this.boundary_nodes_ids_set_
                  \/ common_nns.j_p_1 \in this.boundary_nodes_ids_set_
          THEN [this |-> this, bfd |-> BondFlipData_default, path |-> "boundary"]
          ELSE flip_bond_in_quadrilateral(this, node_id, nn_id, common_nns,
                                          min_bond_length_square, max_bond_length_square)
          : <<this, common_nns>> \in
                { <<t, previous_and_next_neighbour_global_ids(t.nodes_, node_id, nn_id)>>
                  : t \in {this_in} } } : TRUE

\* unflip_bond that hands node_id and nn_id to the rewrite in the wrong order
unflip_bond_swapped_arguments(this_in, node_id, nn_id, common_nns) ==
    CHOOSE unflipped \in
        { [this EXCEPT
              !.nodes_ = update_diamond_geometry(
                             flip_bond_unchecked(this.nodes_, common_nns.common_nn_0,
                                                 common_nns.common_nn_1, node_id, nn_id).nodes,
                             node_id, nn_id, common_nns.common_nn_0, common_nns.common_nn_1),
              !.global_geometry_ =
                  update_global_geometry(this.global_geometry_,
                                         this.post_update_geometry, this.pre_update_geometry)]
          : this \in {this_in} } : TRUE

unflip_bond(this_in, node_id, nn_id, common_nns) ==
    CHOOSE unflipped \in
        { [this EXCEPT
              !.nodes_ = update_diamond_geometry(
                             flip_bond_unchecked(this.nodes_, common_nns.common_nn_0,
                                                 common_nns.common_nn_1, nn_id, node_id).nodes,
                             node_id, nn_id, common_nns.common_nn_0, common_nns.common_nn_1),
              !.global_geometry_ =
                  update_global_geometry(this.global_geometry_,
                                         this.post_update_geometry, this.pre_update_geometry)]
          : this \in {this_in} } : TRUE

(***************************************************************************)
(* Mesh seeds.  The generators (IcosahedronSubTriangulation and            *)
(* PlanarTriangulation of Triangulator.hpp) hand the constructors a node   *)
(* set with positions and neighbour rings.  The seeds below are what the   *)
(* spherical constructor has after scale_all_nodes_to_R_init and           *)
(* orient_surface_of_a_sphere for iteration level 0 (the 12 corners of an  *)
(* icosahedron, (0, +-1, +-phi) and its cyclic shifts scaled to integers,  *)
(* every ring counterclockwise seen from outside) and what the planar      *)
(* constructor has after orient_plane for a 5 x 5 grid of spacing 10 with  *)
(* alternating diagonals (the outer frame is the boundary).                *)
(***************************************************************************)
seed_node(p, ring) ==
    [pos |-> p, nn_ids |-> ring, nn_distances |-> <<>>, verlet_list |-> <<>>,
     area |-> 0, volume |-> 0, unit_bending_energy |-> 0, curvature_vec |-> <<0, 0, 0>>]

icosahedron_pos ==
    << <<0, 5, 8>>, <<0, 5, -8>>, <<0, -5, 8>>, <<0, -5, -8>>,
       <<5, 8, 0>>, <<5, -8, 0>>, <<-5, 8, 0>>, <<-5, -8, 0>>,
       <<8, 0, 5>>, <<8, 0, -5>>, <<-8, 0, 5>>, <<-8, 0, -5>> >>

icosahedron_nn_ids ==
    << <<2, 8, 4, 6, 10>>, <<3, 11, 6, 4, 9>>, <<0, 10, 7, 5, 8>>, <<1, 9, 5, 7, 11>>,
       <<0, 8, 9, 1, 6>>, <<2, 7, 3, 9, 8>>, <<0, 4, 1, 11, 10>>, <<2, 10, 11, 3, 5>>,
       <<0, 2, 5, 9, 4>>, <<1, 4, 8, 5, 3>>, <<0, 6, 11, 7, 2>>, <<1, 3, 7, 10, 6>> >>

planar_pos ==
    << <<0, 0, 0>>, <<10, 0, 0>>, <<20, 0, 0>>, <<30, 0, 0>>, <<40, 0, 0>>,
       <<0, 10, 0>>, <<10, 10, 0>>, <<20, 10, 0>>, <<30, 10, 0>>, <<40, 10, 0>>,
       <<0, 20, 0>>, <<10, 20, 0>>, <<20, 20, 0>>, <<30, 20, 0>>, <<40, 20, 0>>,
       <<0, 30, 0>>, <<10, 30, 0>>, <<20, 30, 0>>, <<30, 30, 0>>, <<40, 30, 0>>,
       <<0, 40, 0>>, <<10, 40, 0>>, <<20, 40, 0>>, <<30, 40, 0>>, <<40, 40, 0>> >>

planar_nn_ids ==
    << <<5, 6, 1>>, <<0, 6, 2>>, <<1, 6, 7, 8, 3>>, <<2, 8, 4>>, <<3, 8, 9>>,
       <<10, 6, 0>>, <<5, 10, 11, 12, 7, 2, 1, 0>>, <<6, 12, 8, 2>>,
       <<7, 12, 13, 14, 9, 4, 3, 2>>, <<8, 14, 4>>,
       <<15, 16, 11, 6, 5>>, <<10, 16, 12, 6>>, <<11, 16, 17, 18, 13, 8, 7, 6>>,
       <<12, 18, 14, 8>>, <<13, 18, 19, 9, 8>>,
       <<20, 16, 10>>, <<15, 20, 21, 22, 17, 12, 11, 10>>, <<16, 22, 18, 12>>,
       <<17, 22, 23, 24, 19, 14, 13, 12>>, <<18, 24, 14>>,
       <<21, 16, 15>>, <<20, 22, 16>>, <<21, 23, 18, 17, 16>>, <<22, 24, 18>>,
       <<23, 19, 18>> >>

planar_boundary == {0, 1, 2, 3, 4, 5, 9, 10, 14, 15, 19, 20, 21, 22, 23, 24}

\* the argument verlet_radius_inp of the constructors: on both meshes the
\* nodes one short bond away are inside it, the nodes across a diagonal of the
\* planar grid are not
verlet_radius_inp == 12

\* the object at the end of the constructor of the given triangulation type
constructed(type) ==
    LET pos_seed == IF type = "SPHERICAL_TRIANGULATION" THEN icosahedron_pos ELSE planar_pos
        ring_seed == IF type = "SPHERICAL_TRIANGULATION" THEN icosahedron_nn_ids
                                                          ELSE planar_nn_ids
    IN  initiate_advanced_geometry(
            [triangulation_type |-> type,
             nodes_ |-> [i \in 0..(Len(pos_seed) - 1) |->
                            seed_node(pos_seed[i + 1], ring_seed[i + 1])],
             boundary_nodes_ids_set_ |->
                 IF type = "SPHERICAL_TRIANGULATION" THEN {} ELSE planar_boundary,
             global_geometry_ |-> Geometry_empty,
             pre_update_geometry |-> Geometry_empty,
             post_update_geometry |-> Geometry_empty,
             verlet_radius |-> verlet_radius_inp,
             verlet_radius_squared |-> 0])

(***************************************************************************)
(* fp::Triangulation::calculate_mass_center                                *)
(***************************************************************************)
RECURSIVE sum_of_positions(_, _)
\* the loop mass_center += node.pos over the first upto nodes
sum_of_positions(nodes, upto) ==
    IF upto = 0 THEN <<0, 0, 0>>
    ELSE vec3_add(sum_of_positions(nodes, upto - 1), nodes[upto - 1].pos)

\* the mass center, in thousandths of the unit of the positions
calculate_mass_center(this) ==
    LET size == Cardinality(DOMAIN this.nodes_)
    IN  vec3_div(vec3_scale(1000, sum_of_positions(this.nodes_, size)), size)

(***************************************************************************)
(* The unsigned type Index, 32 bits wide: a value is the pair of its upper *)
(* and its lower 16 bits, and the arithmetic is modulo 2^32.               *)
(***************************************************************************)
half_word == 65536

\* static_cast<Index> of a natural number below 2^31
Index_of(n) == <<n \div half_word, n % half_word>>

\* the number that an Index below 2^31 stands for
Index_value(a) == (a[1] * half_word) + a[2]

Index_add(a, b) ==
    <<(a[1] + b[1] + ((a[2] + b[2]) \div half_word)) % half_word,
      (a[2] + b[2]) % half_word>>

\* a - 1, which is 2^32 - 1 for a = 0
Index_minus_one(a) ==
    IF a[2] > 0 THEN <<a[1], a[2] - 1>>
    ELSE IF a[1] > 0 THEN <<a[1] - 1, half_word - 1>>
    ELSE <<half_word - 1, half_word - 1>>

\* the product of two numbers below 2^16, as an Index
half_word_product(a, b) ==
    LET upper == a * (b \div 256)
        lower == a * (b % 256)
        low_sum == ((upper % 256) * 256) + (lower % half_word)
    IN  <<(upper \div 256) + (lower \div half_word) + (low_sum \div half_word),
          low_sum % half_word>>

Index_multiply(a, b) ==
    LET low == half_word_product(a[2], b[2])
        mixed == half_word_product(a[1], b[2])[2] + half_word_product(a[2], b[1])[2]
    IN  <<(low[1] + mixed) % half_word, low[2]>>

\* a / 2
Index_half(a) == <<a[1] \div 2, ((a[1] % 2) * (half_word \div 2)) + (a[2] \div 2)>>

\* the numbers of corners, edges and faces of an icosahedron
N_ICOSA_NODEs == 12

N_ICOSA_EDGEs == 30

N_ICOSA_FACEs == 20

\* the number of nodes that triangulate_sphere_nodes(n_iter) allocates, first
\* with a variant that takes n_iter for the number of new nodes on an edge
nNodes_with_one_more_node_on_an_edge(n_iter) ==
    LET nNewNodesOnEdge == Index_of(n_iter)
        nBulk == Index_half(Index_multiply(nNewNodesOnEdge,
                                           Index_add(nNewNodesOnEdge, Index_of(1))))
    IN  Index_add(Index_add(Index_of(N_ICOSA_NODEs),
                            Index_multiply(Index_of(N_ICOSA_EDGEs), Index_of(n_iter))),
                  Index_multiply(Index_of(N_ICOSA_FACEs), nBulk))

nNodes(n_iter) ==
    LET nNewNodesOnEdge == Index_minus_one(Index_of(n_iter))
        nBulk == Index_half(Index_multiply(nNewNodesOnEdge,
                                           Index_add(nNewNodesOnEdge, Index_of(1))))
    IN  Index_add(Index_add(Index_of(N_ICOSA_NODEs),
                            Index_multiply(Index_of(N_ICOSA_EDGEs), Index_of(n_iter))),
                  Index_multiply(Index_of(N_ICOSA_FACEs), nBulk))

(***************************************************************************)
(* MonteCarloUpdater.  An updater is the record of its data members; the   *)
(* triangulation it refers to is handed to every operator and handed back  *)
(* by it.  Energies and kBT are in hundredths, a drawn random number u and *)
(* a Boltzmann weight are in ten-thousandths.                              *)
(***************************************************************************)
\* the parameters handed to the energy function
prms == [kappa |-> 2, K_A |-> 1, A_t |-> 7000]

\* the energy function handed to the updater: surface_energy of the demo
energy_function(node, trg, prms_inp) ==
    LET A == trg.global_geometry_.area
        bending == trg.global_geometry_.unit_bending_energy
        dA == A - prms_inp.A_t
    IN  IF A = not_finite \/ bending = not_finite
        THEN not_finite
        ELSE prms_inp.kappa * bending + (prms_inp.K_A * dA * dA) \div prms_inp.A_t

\* the weight of one whole unit of the exponent, exp(-1)
exp_of_minus_one == 3679

\* the exponents from which on the weight is below one ten-thousandth
exp_underflow == 10

\* exp(-f / 1000) for 0 <= f < 1000, by its series
exp_series(f) ==
    LET t1 == (10000 * f) \div 1000
        t2 == (t1 * f) \div 2000
        t3 == (t2 * f) \div 3000
        t4 == (t3 * f) \div 4000
        t5 == (t4 * f) \div 5000
        t6 == (t5 * f) \div 6000
    IN  10000 - t1 + t2 - t3 + t4 - t5 + t6

RECURSIVE exp_scaled(_, _)
\* weight * exp(-k) for a natural number k
exp_scaled(weight, k) ==
    IF k = 0 THEN weight ELSE exp_scaled((weight * exp_of_minus_one) \div 10000, k - 1)

\* std::exp(e_diff / kBT) for e_diff < 0 < kBT
std_exp(e_diff, kBT) ==
    IF 0 - e_diff >= exp_underflow * kBT
    THEN 0
    ELSE CHOOSE w \in { exp_scaled(exp_series(t % 1000), t \div 1000)
                        : t \in {((0 - e_diff) * 1000) \div kBT} } : TRUE

\* the constructor: kBT_{1}, the squares of the two bond lengths, counters 0
MonteCarloUpdater(min_bond_length, max_bond_length) ==
    [e_old |-> 0, e_new |-> 0, e_diff |-> 0, kBT_ |-> 100,
     min_bond_length_square |-> min_bond_length * min_bond_length,
     max_bond_length_square |-> max_bond_length * max_bond_length,
     move_attempt |-> 0, bond_length_move_rejection |-> 0, move_back |-> 0,
     flip_attempt |-> 0, bond_length_flip_rejection |-> 0, flip_back |-> 0]

\* move_needs_undoing that takes e_diff for E_new - E_old
move_needs_undoing_with_sign_of_e_diff_lost(mc, u) ==
    LET e_diff == real_subtract(mc.e_old, mc.e_new)
        costs == e_diff # not_finite /\ e_diff > 0
    IN  [this |-> [mc EXCEPT !.e_diff = e_diff],
         drawn |-> mc.kBT_ > 0 /\ costs,
         undo |-> IF mc.kBT_ > 0 THEN costs /\ u > std_exp(0 - e_diff, mc.kBT_) ELSE costs]

\* move_needs_undoing with the number u that the random engine gives when it
\* is asked for one; drawn tells that it was asked.  First the variant that
\* also undoes an update that leaves the energy as it was.
move_needs_undoing_at_no_gain(mc, u) ==
    LET e_diff == real_subtract(mc.e_old, mc.e_new)
        costs == e_diff # not_finite /\ e_diff <= 0
    IN  [this |-> [mc EXCEPT !.e_diff = e_diff],
         drawn |-> mc.kBT_ > 0 /\ costs,
         undo |-> IF mc.kBT_ > 0 THEN costs /\ u > std_exp(e_diff, mc.kBT_) ELSE costs]

move_needs_undoing(mc, u) ==
    LET e_diff == real_subtract(mc.e_old, mc.e_new)
        costs == e_diff # not_finite /\ e_diff < 0
    IN  [this |-> [mc EXCEPT !.e_diff = e_diff],
         drawn |-> mc.kBT_ > 0 /\ costs,
         undo |-> IF mc.kBT_ > 0 THEN costs /\ u > std_exp(e_diff, mc.kBT_) ELSE costs]

\* the test of the bonds of the node, first with a variant that also refuses a
\* bond that starts exactly at a bound
new_next_neighbour_distances_are_between_min_and_max_length_inclusive(mc, node, displacement) ==
    \A k \in 1..Len(node.nn_distances) :
        LET distance_square_new == norm_square(vec3_subtract(node.nn_distances[k], displacement))
            distance_square_old == norm_square(node.nn_distances[k])
        IN  /\ ~(distance_square_new > mc.max_bond_length_square
                   /\ distance_square_old <= mc.max_bond_length_square)
            /\ ~(distance_square_old >= mc.min_bond_length_square
                   /\ distance_square_new < mc.min_bond_length_square)

new_next_neighbour_distances_are_between_min_and_max_length(mc, node, displacement) ==
    \A k \in 1..Len(node.nn_distances) :
        LET distance_square_new == norm_square(vec3_subtract(node.nn_distances[k], displacement))
            distance_square_old == norm_square(node.nn_distances[k])
        IN  /\ ~(distance_square_new > mc.max_bond_length_square
                   /\ distance_square_old < mc.max_bond_length_square)
            /\ ~(distance_square_old > mc.min_bond_length_square
                   /\ distance_square_new < mc.min_bond_length_square)

new_verlet_neighbour_distances_are_between_min_and_max_length(mc, trg, node, displacement) ==
    \A k \in 1..Len(node.verlet_list) :
        LET there == trg.nodes_[node.verlet_list[k]].pos
            distance_square_new == norm_square(vec3_subtract(vec3_subtract(there, node.pos), displacement))
            distance_square_old == norm_square(vec3_subtract(there, node.pos))
        IN  ~(distance_square_new < mc.min_bond_length_square
                /\ distance_square_old > mc.min_bond_length_square)

new_neighbour_distances_are_between_min_and_max_length(mc, trg, node, displacement) ==
    /\ new_next_neighbour_distances_are_between_min_and_max_length(mc, node, displacement)
    /\ new_verlet_neighbour_distances_are_between_min_and_max_length(mc, trg, node, displacement)

\* what an update step hands back: the updater, the triangulation, whether the
\* update was applied, whether it was undone, how often the energy function
\* was called, whether a random number was drawn for the Metropolis test, and
\* for a flip the neighbour and the BondFlipData of flip_bond
step_outcome(mc, trg, applied, verdict, energy_calls, nn_id, flip) ==
    [updater |-> mc, triangulation |-> trg, applied |-> applied,
     undone |-> verdict.undo, drawn |-> verdict.drawn,
     energy_calls |-> energy_calls, nn_id |-> nn_id, bfd |-> flip.bfd,
     path |-> flip.path]

no_verdict == [undo |-> FALSE, drawn |-> FALSE]

no_flip == [bfd |-> BondFlipData_default, path |-> ""]

\* lines 177 to 180: the move is made, and undone if move_needs_undoing
move_and_test(mc, trg, node_id, displacement, u) ==
    CHOOSE r \in
        { CHOOSE s \in
            { IF verdict.undo
              THEN step_outcome([verdict.this EXCEPT !.move_back = @ + 1],
                                move_node(moved, node_id, vec3_neg(displacement)),
                                TRUE, verdict, 2, 0, no_flip)
              ELSE step_outcome(verdict.this, moved, TRUE, verdict, 2, 0, no_flip)
              : verdict \in
                  {move_needs_undoing(
                      [mc EXCEPT !.e_old = energy_function(trg.nodes_[node_id], trg, prms),
                                 !.e_new = energy_function(moved.nodes_[node_id], moved, prms)],
                      u)} } : TRUE
          : moved \in {move_node(trg, node_id, displacement)} } : TRUE

\* move_MC_updater, first with a variant that counts the attempt only when
\* the move is made
move_MC_updater_counting_late(mc_in, trg, node_id, displacement, u) ==
    CHOOSE r \in
        { IF new_neighbour_distances_are_between_min_and_max_length(
                 mc, trg, trg.nodes_[node_id], displacement)
          THEN move_and_test([mc EXCEPT !.move_attempt = @ + 1], trg, node_id, displacement, u)
          ELSE step_outcome([mc EXCEPT !.bond_length_move_rejection = @ + 1],
                            trg, FALSE, no_verdict, 0, 0, no_flip)
          : mc \in {mc_in} } : TRUE

move_MC_updater(mc_in, trg, node_id, displacement, u) ==
    CHOOSE r \in
        { IF new_neighbour_distances_are_between_min_and_max_length(
                 mc, trg, trg.nodes_[node_id], displacement)
          THEN move_and_test(mc, trg, node_id, displacement, u)
          ELSE step_outcome([mc EXCEPT !.bond_length_move_rejection = @ + 1],
                            trg, FALSE, no_verdict, 0, 0, no_flip)
          : mc \in {[mc_in EXCEPT !.move_attempt = @ + 1]} } : TRUE

\* lines 221 to 228 (and 197, 200 to 204): flip_bond between the two energy
\* calls, and unflip_bond if the flip was made and move_needs_undoing
flip_and_test(mc, trg, node_id, nn_id, u) ==
    CHOOSE r \in
        { IF ~flip.bfd.flipped
          THEN step_outcome([mc EXCEPT !.e_old = energy_function(trg.nodes_[node_id], trg, prms),
                                       !.bond_length_flip_rejection = @ + 1],
                            flip.this, FALSE, no_verdict, 1, nn_id, flip)
          ELSE CHOOSE s \in
            { IF verdict.undo
              THEN step_outcome([verdict.this EXCEPT !.flip_back = @ + 1],
                                unflip_bond(flip.this, node_id, nn_id, flip.bfd),
                                TRUE, verdict, 2, nn_id, flip)
              ELSE step_outcome(verdict.this, flip.this, TRUE, verdict, 2, nn_id, flip)
              : verdict \in
                  {move_needs_undoing(
                      [mc EXCEPT !.e_old = energy_function(trg.nodes_[node_id], trg, prms),
                                 !.e_new = energy_function(flip.this.nodes_[node_id],
                                                           flip.this, prms)],
                      u)} } : TRUE
          : flip \in {flip_bond(trg, node_id, nn_id, mc.min_bond_length_square,
                                mc.max_bond_length_square)} } : TRUE

\* flip_MC_updater(node): drawn_index is the number that the random engine
\* gives between 0 and number_nn_ids - 1
flip_MC_updater(mc, trg, node_id, drawn_index, u) ==
    flip_and_test([mc EXCEPT !.flip_attempt = @ + 1], trg, node_id,
                  trg.nodes_[node_id].nn_ids[drawn_index + 1], u)

\* flip_MC_updater(node, id_in_nn_ids)
flip_MC_updater_with_id(mc, trg, node_id, id_in_nn_ids, u) ==
    flip_and_test([mc EXCEPT !.flip_attempt = @ + 1], trg, node_id, id_in_nn_ids, u)

reset_kBT(mc, kBT) == [mc EXCEPT !.kBT_ = kBT]

(***************************************************************************)
(* Inputs of the calls                                                     *)
(***************************************************************************)
TriangulationTypes == {"SPHERICAL_TRIANGULATION", "EXPERIMENTAL_PLANAR_TRIANGULATION"}

\* displacement vectors handed to move_node
Displacements == {<<1, -2, 3>>, <<0, 0, -2>>}

\* (min_bond_length_square, max_bond_length_square) handed to flip_bond
BondLengthBounds == {<<50, 500>>, <<50, 250>>}

\* the nodes that are moved (node 2 of the planar mesh is a boundary node)
MoveNodes(type) == IF type = "SPHERICAL_TRIANGULATION" THEN {0} ELSE {6, 2}

\* the pairs (node_id, nn_id) handed to flip_bond; a pair is used in the states
\* in which nn_id is in the ring of node_id (node 2 of the planar mesh is a
\* boundary node, and so is the neighbour before 6 in the ring of 7)
FlipPairs(type) ==
    IF type = "SPHERICAL_TRIANGULATION"
    THEN {<<0, 2>>, <<0, 10>>, <<4, 9>>, <<6, 11>>, <<10, 8>>}
    ELSE {<<16, 12>>, <<12, 7>>, <<7, 12>>, <<7, 6>>, <<11, 17>>, <<7, 2>>, <<2, 7>>}

\* (min_bond_length, max_bond_length) handed to the constructor of the
\* updater: 7 is below and 17 is above every bond of the constructed meshes
\* and the bonds that their flips make; 10 is the length of the short bonds of
\* the planar mesh
default_bond_lengths == <<7, 17>>

BondLengths == {default_bond_lengths, <<7, 10>>}

\* the radii handed to set_verlet_radius: none of the nodes, the short bonds,
\* all bonds of the constructed meshes, and the nodes two bonds away as well
VerletRadii == {0, 11, 15, 21}

\* pairs (node_id, nn_id) of nodes of the constructed mesh that are no
\* neighbours: on the sphere node 1 is two bonds away from node 0 and node 3
\* is opposite to it; in the plane 7 is two bonds away from 13, and the ring
\* of 7 ends and begins at boundary nodes
NonBondPairs(type) ==
    IF type = "SPHERICAL_TRIANGULATION"
    THEN {<<0, 1>>, <<0, 3>>}
    ELSE {<<13, 7>>, <<7, 11>>}

\* the inputs of the updater: the numbers that the random engine gives for the
\* Metropolis test, the values handed to reset_kBT, and the nodes,
\* displacements and neighbours handed to the update steps (towards node 2
\* of the sphere node 0 moves by <<0, -4, 0>>)
Uniforms == {0, 5000, 9999}

Temperatures == {0, 0 - 100}

UpdaterDisplacements == Displacements \cup {<<0, -4, 0>>}

UpdaterNodes(type) == IF type = "SPHERICAL_TRIANGULATION" THEN {0} ELSE {6}

UpdaterFlipPairs(type) ==
    IF type = "SPHERICAL_TRIANGULATION"
    THEN {<<0, 2>>}
    ELSE {<<16, 12>>, <<7, 12>>, <<7, 2>>}

\* the inputs of the calls made on one node alone: the node, the ids handed to
\* emplace_nn_id and pop_nn (1 is no neighbour of node 0 of the sphere, 2 and
\* 8 are), and the position handed to emplace_nn_id
LoneNode == 0

EmplacedIds == {1, 2}

PoppedIds == {1, 2, 8}

EmplacedPos == <<3, -1, 4>>

\* the coordinates of the vectors handed to vec3::cross
Coordinates == {0 - 3, 0, 2, 5}

(***************************************************************************)
(* State: the data members of one Triangulation object and of one          *)
(* MonteCarloUpdater that refers to it, and a record of                    *)
(* the last call (its arguments, its return value and the nodes and global *)
(* geometry it started from; for unflip_bond, those the flip_bond call it  *)
(* reverses started from).                                                 *)
(***************************************************************************)
VARIABLES triangulation_type, nodes_, boundary_nodes_ids_set_, global_geometry_,
          pre_update_geometry, post_update_geometry, verlet_radius,
          verlet_radius_squared, mc_updater, last, n_calls

vars == <<triangulation_type, nodes_, boundary_nodes_ids_set_, global_geometry_,
          pre_update_geometry, post_update_geometry, verlet_radius,
          verlet_radius_squared, mc_updater, last, n_calls>>

this_object ==
    [triangulation_type |-> triangulation_type, nodes_ |-> nodes_,
     boundary_nodes_ids_set_ |-> boundary_nodes_ids_set_,
     global_geometry_ |-> global_geometry_,
     pre_update_geometry |-> pre_update_geometry,
     post_update_geometry |-> post_update_geometry,
     verlet_radius |-> verlet_radius,
     verlet_radius_squared |-> verlet_radius_squared]

becomes(this) ==
    /\ triangulation_type' = this.triangulation_type
    /\ nodes_' = this.nodes_
    /\ boundary_nodes_ids_set_' = this.boundary_nodes_ids_set_
    /\ global_geometry_' = this.global_geometry_
    /\ pre_update_geometry' = this.pre_update_geometry
    /\ post_update_geometry' = this.post_update_geometry
    /\ verlet_radius' = this.verlet_radius
    /\ verlet_radius_squared' = this.verlet_radius_squared

\* no flip_bond call whose flip is still in the mesh
no_pending ==
    [valid |-> FALSE, node_id |-> 0, nn_id |-> 0, bfd |-> BondFlipData_default,
     before_nodes |-> <<>>, before_global |-> Geometry_empty, refused_since |-> 0,
     rolled_back |-> FALSE]

no_call ==
    [op |-> "constructor", node_id |-> 0, nn_id |-> 0, displacement |-> <<0, 0, 0>>,
     bounds |-> <<0, 0>>, bfd |-> BondFlipData_default, path |-> "",
     before_nodes |-> <<>>, before_global |-> Geometry_empty,
     u |-> 0, applied |-> FALSE, undone |-> FALSE, drawn |-> FALSE,
     energy_calls |-> 0, before_updater |-> MonteCarloUpdater(0, 0),
     pending |-> no_pending, args |-> <<>>, result |-> <<>>]

\* the flip_bond call that returned flipped = true and was followed by calls
\* of flip_bond only, all of which returned flipped = false, up to and
\* including the call recorded in call
pending_of(call) ==
    IF call.op = "flip_bond" /\ call.bfd.flipped
    THEN [valid |-> TRUE, node_id |-> call.node_id, nn_id |-> call.nn_id,
          bfd |-> call.bfd, before_nodes |-> call.before_nodes,
          before_global |-> call.before_global, refused_since |-> 0,
          rolled_back |-> FALSE]
    ELSE IF call.op = "flip_bond" /\ call.pending.valid
         THEN [call.pending EXCEPT !.refused_since = @ + 1,
                                   !.rolled_back = @ \/ call.path = "rollback"]
         ELSE no_pending

InitWith(type, lengths) ==
    \E this \in {constructed(type)} :
        /\ triangulation_type = this.triangulation_type
        /\ nodes_ = this.nodes_
        /\ boundary_nodes_ids_set_ = this.boundary_nodes_ids_set_
        /\ global_geometry_ = this.global_geometry_
        /\ pre_update_geometry = this.pre_update_geometry
        /\ post_update_geometry = this.post_update_geometry
        /\ verlet_radius = this.verlet_radius
        /\ verlet_radius_squared = this.verlet_radius_squared
        /\ mc_updater = MonteCarloUpdater(lengths[1], lengths[2])
        /\ last = no_call
        /\ n_calls = 0

InitOf(type) == InitWith(type, default_bond_lengths)

Init == \E type \in TriangulationTypes : InitOf(type)

\* triangulation.move_node(node_id, displacement)
MoveNode ==
    /\ n_calls < MaxCalls
    /\ \E node_id \in MoveNodes(triangulation_type), displacement \in Displacements :
          /\ \E moved \in {move_node(this_object, node_id, displacement)} : becomes(moved)
          /\ last' = [no_call EXCEPT !.op = "move_node", !.node_id = node_id,
                                     !.displacement = displacement,
                                     !.before_nodes = nodes_,
                                     !.before_global = global_geometry_]
    /\ n_calls' = n_calls + 1
    /\ UNCHANGED mc_updater

\* triangulation.move_node(node_id, -displacement) right after the call
\* move_node(node_id, displacement)
MoveNodeBack ==
    /\ last.op = "move_node"
    /\ \E moved \in {move_node(this_object, last.node_id, vec3_neg(last.displacement))} :
          becomes(moved)
    /\ last' = [last EXCEPT !.op = "move_node_back"]
    /\ UNCHANGED <<n_calls, mc_updater>>

\* the effect of triangulation.flip_bond(node_id, nn_id, bounds) on the state
FlipCall(node_id, nn_id, bounds) ==
    \E result \in {flip_bond(this_object, node_id, nn_id, bounds[1], bounds[2])} :
        /\ becomes(result.this)
        /\ last' = [no_call EXCEPT !.op = "flip_bond", !.node_id = node_id,
                                   !.nn_id = nn_id, !.bounds = bounds,
                                   !.bfd = result.bfd, !.path = result.path,
                                   !.before_nodes = nodes_,
                                   !.before_global = global_geometry_,
                                   !.pending = pending_of(last)]
        /\ n_calls' = n_calls + 1
        /\ UNCHANGED mc_updater

\* triangulation.flip_bond(node_id, nn_id, min, max) on a bond of the mesh
FlipBond ==
    /\ n_calls < MaxCalls
    /\ \E pair \in FlipPairs(triangulation_type), bounds \in BondLengthBounds :
          /\ is_member(nodes_[pair[1]].nn_ids, pair[2])
          /\ FlipCall(pair[1], pair[2], bounds)

\* triangulation.flip_bond(node_id, nn_id, min, max) with two nodes that are
\* not joined by a bond
FlipNonBond ==
    /\ n_calls < MaxCalls
    /\ \E pair \in NonBondPairs(triangulation_type), bounds \in BondLengthBounds :
          /\ ~is_member(nodes_[pair[1]].nn_ids, pair[2])
          /\ ~is_member(nodes_[pair[2]].nn_ids, pair[1])
          /\ FlipCall(pair[1], pair[2], bounds)

\* triangulation.unflip_bond(node_id, nn_id, bfd) right after the flip_bond
\* call that returned bfd with flipped = true
UnflipBond ==
    /\ last.op = "flip_bond"
    /\ last.bfd.flipped
    /\ \E unflipped \in {unflip_bond(this_object, last.node_id, last.nn_id, last.bfd)} :
          becomes(unflipped)
    /\ last' = [last EXCEPT !.op = "unflip_bond"]
    /\ UNCHANGED <<n_calls, mc_updater>>

Next == MoveNode \/ MoveNodeBack \/ FlipBond \/ UnflipBond

Spec == Init /\ [][Next]_vars

\* flip_bond as the first call on the constructed level 0 sphere, on any of
\* its bonds
FlipAnyBondOfConstructedMesh ==
    /\ n_calls = 0
    /\ \E node_id \in DOMAIN nodes_, bounds \in BondLengthBounds :
        \E k \in 1..Len(nodes_[node_id].nn_ids) :
          FlipCall(node_id, nodes_[node_id].nn_ids[k], bounds)

NextIcosahedron == FlipAnyBondOfConstructedMesh \/ UnflipBond

SpecIcosahedron == InitOf("SPHERICAL_TRIANGULATION") /\ [][NextIcosahedron]_vars

\* triangulation.set_verlet_radius(R)
SetVerletRadius ==
    /\ n_calls < MaxCalls
    /\ \E R \in VerletRadii :
          /\ R # verlet_radius
          /\ becomes(set_verlet_radius(this_object, R))
    /\ last' = [no_call EXCEPT !.op = "set_verlet_radius", !.before_nodes = nodes_,
                               !.before_global = global_geometry_]
    /\ n_calls' = n_calls + 1
    /\ UNCHANGED mc_updater

\* triangulation.make_verlet_list()
MakeVerletList ==
    /\ n_calls < MaxCalls
    /\ \E made \in {make_verlet_list(this_object)} : becomes(made)
    /\ last' = [no_call EXCEPT !.op = "make_verlet_list", !.before_nodes = nodes_,
                               !.before_global = global_geometry_]
    /\ n_calls' = n_calls + 1
    /\ UNCHANGED mc_updater

\* the Verlet lists under moves, new radii and new builds
NextVerletList == MoveNode \/ SetVerletRadius \/ MakeVerletList

SpecVerletList == Init /\ [][NextVerletList]_vars

\* flip_bond on bonds and on pairs of nodes without a bond
NextAnyPair == FlipBond \/ FlipNonBond

SpecAnyPair == Init /\ [][NextAnyPair]_vars

\* the updater and the triangulation after an update step, and the record of
\* the step
UpdaterStep(op, node_id, displacement, u, outcome) ==
    /\ becomes(outcome.triangulation)
    /\ mc_updater' = outcome.updater
    /\ last' = [no_call EXCEPT !.op = op, !.node_id = node_id,
                               !.nn_id = outcome.nn_id,
                               !.displacement = displacement,
                               !.bounds = <<mc_updater.min_bond_length_square,
                                            mc_updater.max_bond_length_square>>,
                               !.bfd = outcome.bfd, !.path = outcome.path,
                               !.before_nodes = nodes_,
                               !.before_global = global_geometry_,
                               !.u = IF outcome.drawn THEN u ELSE 0,
                               !.applied = outcome.applied,
                               !.undone = outcome.undone,
                               !.drawn = outcome.drawn,
                               !.energy_calls = outcome.energy_calls,
                               !.before_updater = mc_updater]
    /\ n_calls' = n_calls + 1

\* mc_updater.move_MC_updater(triangulation[node_id], displacement)
MoveMCUpdater ==
    /\ n_calls < MaxProposals
    /\ \E node_id \in UpdaterNodes(triangulation_type) :
       \E displacement \in UpdaterDisplacements, u \in Uniforms :
       \E outcome \in {move_MC_updater(mc_updater, this_object, node_id, displacement, u)} :
          UpdaterStep("move_MC_updater", node_id, displacement, u, outcome)

\* mc_updater.flip_MC_updater(triangulation[node_id])
FlipMCUpdater ==
    /\ n_calls < MaxProposals
    /\ \E node_id \in UpdaterNodes(triangulation_type), u \in Uniforms :
       \E drawn_index \in {0, Len(nodes_[node_id].nn_ids) - 1} :
       \E outcome \in {flip_MC_updater(mc_updater, this_object, node_id, drawn_index, u)} :
          UpdaterStep("flip_MC_updater", node_id, <<0, 0, 0>>, u, outcome)

\* mc_updater.flip_MC_updater(triangulation[node_id], id_in_nn_ids) with a
\* neighbour of the node
FlipMCUpdaterWithId ==
    /\ n_calls < MaxProposals
    /\ \E pair \in UpdaterFlipPairs(triangulation_type), u \in Uniforms :
          /\ is_member(nodes_[pair[1]].nn_ids, pair[2])
          /\ \E outcome \in {flip_MC_updater_with_id(mc_updater, this_object,
                                                      pair[1], pair[2], u)} :
                UpdaterStep("flip_MC_updater", pair[1], <<0, 0, 0>>, u, outcome)

\* mc_updater.reset_kBT(kBT), between two update steps
ResetKBT ==
    /\ n_calls < MaxProposals
    /\ last.op # "reset_kBT"
    /\ \E kBT \in Temperatures :
          /\ kBT # mc_updater.kBT_
          /\ mc_updater' = reset_kBT(mc_updater, kBT)
    /\ last' = [no_call EXCEPT !.op = "reset_kBT", !.before_nodes = nodes_,
                               !.before_global = global_geometry_,
                               !.before_updater = mc_updater]
    /\ UNCHANGED <<triangulation_type, nodes_, boundary_nodes_ids_set_,
                   global_geometry_, pre_update_geometry, post_update_geometry,
                   verlet_radius, verlet_radius_squared, n_calls>>

InitUpdater ==
    \E type \in TriangulationTypes, lengths \in BondLengths : InitWith(type, lengths)

\* triangulation.unflip_bond(node_id, nn_id, bfd) for the last flip_bond call
\* that returned flipped = true, after one or more flip_bond calls that
\* returned flipped = false
UnflipPending ==
    /\ last.op = "flip_bond"
    /\ ~last.bfd.flipped
    /\ last.pending.valid
    /\ \E unflipped \in {unflip_bond(this_object, last.pending.node_id,
                                      last.pending.nn_id, last.pending.bfd)} :
          becomes(unflipped)
    /\ last' = [no_call EXCEPT !.op = "unflip_bond",
                               !.node_id = last.pending.node_id,
                               !.nn_id = last.pending.nn_id,
                               !.bfd = last.pending.bfd,
                               !.before_nodes = last.pending.before_nodes,
                               !.before_global = last.pending.before_global,
                               !.pending = pending_of(last)]
    /\ UNCHANGED <<n_calls, mc_updater>>

NextPendingUnflip == FlipBond \/ UnflipPending

SpecPendingUnflip == Init /\ [][NextPendingUnflip]_vars

\* update steps of an updater on its triangulation, at changing temperatures
NextUpdater == MoveMCUpdater \/ FlipMCUpdater \/ FlipMCUpdaterWithId \/ ResetKBT

SpecUpdater == InitUpdater /\ [][NextUpdater]_vars

\* nodes_[LoneNode].emplace_nn_id(id, pos, loc_idx), with loc_idx a position
\* of nn_ids, its size, or beyond
NodeEmplace ==
    /\ n_calls < MaxCalls
    /\ \E id \in EmplacedIds :
       \E loc_idx \in {0, 1, Len(nodes_[LoneNode].nn_ids) - 1,
                         Len(nodes_[LoneNode].nn_ids), Len(nodes_[LoneNode].nn_ids) + 2} :
          /\ loc_idx >= 0
          /\ nodes_' = [nodes_ EXCEPT ![LoneNode] =
                            emplace_nn_id(nodes_[LoneNode], id, EmplacedPos, loc_idx)]
          /\ last' = [no_call EXCEPT !.op = "emplace_nn_id", !.node_id = LoneNode,
                                     !.nn_id = id, !.args = <<loc_idx>>,
                                     !.before_nodes = nodes_]
    /\ n_calls' = n_calls + 1
    /\ UNCHANGED <<triangulation_type, boundary_nodes_ids_set_, global_geometry_,
                   pre_update_geometry, post_update_geometry, verlet_radius,
                   verlet_radius_squared, mc_updater>>

\* nodes_[LoneNode].pop_nn(id)
NodePop ==
    /\ n_calls < MaxCalls
    /\ \E id \in PoppedIds :
          /\ nodes_' = [nodes_ EXCEPT ![LoneNode] = pop_nn(nodes_[LoneNode], id)]
          /\ last' = [no_call EXCEPT !.op = "pop_nn", !.node_id = LoneNode,
                                     !.nn_id = id, !.before_nodes = nodes_]
    /\ n_calls' = n_calls + 1
    /\ UNCHANGED <<triangulation_type, boundary_nodes_ids_set_, global_geometry_,
                   pre_update_geometry, post_update_geometry, verlet_radius,
                   verlet_radius_squared, mc_updater>>

\* emplace_nn_id and pop_nn on one node of the level 0 sphere
NextLoneNode == NodeEmplace \/ NodePop

SpecLoneNode == InitOf("SPHERICAL_TRIANGULATION") /\ [][NextLoneNode]_vars

\* the record of a call of a function that leaves the triangulation and the
\* updater as they are: its arguments and what it returns
call_of(op, args, result) ==
    [no_call EXCEPT !.op = op, !.args = args, !.result = result]

\* the data members of the triangulation and of the updater, and the number of
\* calls that changed them
object_vars ==
    <<triangulation_type, nodes_, boundary_nodes_ids_set_, global_geometry_,
      pre_update_geometry, post_update_geometry, verlet_radius,
      verlet_radius_squared, mc_updater, n_calls>>

\* the allocation of the nodes in triangulate_sphere_nodes(n_iter)
TriangulateSphereNodes ==
    /\ \E n_iter \in 0..MaxIter :
          last' = call_of("triangulate_sphere_nodes", <<n_iter>>, nNodes(n_iter))
    /\ UNCHANGED object_vars

SpecSphereNodes ==
    InitOf("SPHERICAL_TRIANGULATION") /\ [][TriangulateSphereNodes]_vars

\* x.cross(y), once in a run: what it returns does not depend on the calls
\* before it
Cross ==
    /\ last.op # "cross"
    /\ \E x, y \in Coordinates \X Coordinates \X Coordinates :
          last' = call_of("cross", <<x, y>>, cross(x, y))
    /\ UNCHANGED object_vars

SpecVec3 == InitOf("SPHERICAL_TRIANGULATION") /\ [][Cross]_vars

\* triangulation.calculate_mass_center()
CalculateMassCenter ==
    /\ last.op # "calculate_mass_center"
    /\ last' = call_of("calculate_mass_center", <<>>, calculate_mass_center(this_object))
    /\ UNCHANGED object_vars

\* the mass center of the constructed meshes and of the meshes after moves
NextMassCenter == MoveNode \/ CalculateMassCenter

SpecMassCenter == Init /\ [][NextMassCenter]_vars

(***************************************************************************)
(* Vocabulary of the properties                                            *)
(***************************************************************************)
NodeIds == DOMAIN nodes_

BulkIds == NodeIds \ boundary_nodes_ids_set_

ring_set(nodes, i) == {nodes[i].nn_ids[k] : k \in 1..Len(nodes[i].nn_ids)}

RECURSIVE sum_of_nodes(_, _)
\* the sum of (area, volume, unit_bending_energy) over the nodes 0 .. upto-1
sum_of_nodes(nodes, upto) ==
    IF upto = 0 THEN Geometry_empty
    ELSE Geometry_plus(sum_of_nodes(nodes, upto - 1), Geometry_of_node(nodes[upto - 1]))

\* w is v read from position shift on, with wraparound
is_shift_of(v, w, shift) ==
    /\ Len(v) = Len(w)
    /\ \A k \in 1..Len(v) : w[k] = v[((k - 1 + shift) % Len(v)) + 1]

\* the two vectors are the same cyclic sequence
same_cycle(v, w) ==
    /\ Len(v) = Len(w)
    /\ Len(v) = 0 \/ \E shift \in 0..(Len(v) - 1) : is_shift_of(v, w, shift)

\* the two nodes differ at most by a common rotation of nn_ids and nn_distances
same_node_up_to_rotation(n, m) ==
    /\ n.pos = m.pos /\ n.area = m.area /\ n.volume = m.volume
    /\ n.unit_bending_energy = m.unit_bending_energy
    /\ n.curvature_vec = m.curvature_vec
    /\ Len(n.nn_ids) = Len(m.nn_ids)
    /\ Len(n.nn_distances) = Len(n.nn_ids)
    /\ Len(m.nn_distances) = Len(m.nn_ids)
    /\ Len(n.nn_ids) = 0
       \/ \E shift \in 0..(Len(n.nn_ids) - 1) :
            /\ is_shift_of(n.nn_ids, m.nn_ids, shift)
            /\ is_shift_of(n.nn_distances, m.nn_distances, shift)

\* the last call was flip_bond and it returned flipped = true / false
flip_applied == last.op = "flip_bond" /\ last.bfd.flipped

flip_refused == last.op = "flip_bond" /\ ~last.bfd.flipped

(***************************************************************************)
(* C1  Aggregate fidelity: in every state reached by move_node, flip_bond  *)
(* and unflip_bond (right after the flip it reverses), the stored global   *)
(* geometry is the sum over all nodes of (area, volume,                    *)
(* unit_bending_energy).                                                   *)
(***************************************************************************)
C1_AggregateFidelity ==
    global_geometry_ = sum_of_nodes(nodes_, Cardinality(NodeIds))

\* an unflip has run after at least one earlier call changed the mesh
C1_Witness ==
    /\ last.op = "unflip_bond"
    /\ n_calls >= 2
    /\ global_geometry_ # constructed(triangulation_type).global_geometry_
    /\ C1_AggregateFidelity

(***************************************************************************)
(* C2  Flip/unflip round trip, as stated: after flip_bond returned         *)
(* flipped = true and unflip_bond ran on the returned record, every ring   *)
(* is index for index the ring before the flip and the global geometry is  *)
(* the one before the flip.                                                *)
(***************************************************************************)
C2_RoundTripIndexForIndex ==
    last.op = "unflip_bond" =>
        /\ \A i \in NodeIds : nodes_[i].nn_ids = last.before_nodes[i].nn_ids
        /\ global_geometry_ = last.before_global

(***************************************************************************)
(* C2  Flip/unflip round trip up to rotation: after flip_bond returned     *)
(* flipped = true and unflip_bond ran on the returned record, every node   *)
(* other than node_id and nn_id is exactly as before the flip, node_id and *)
(* nn_id have their ring back as the same cyclic sequence (nn_ids and      *)
(* nn_distances rotated alike) with the geometry they had, and the global  *)
(* geometry is the one before the flip.                                    *)
(***************************************************************************)
C2_RoundTripUpToRotation ==
    last.op = "unflip_bond" =>
        /\ \A i \in NodeIds \ {last.node_id, last.nn_id} : nodes_[i] = last.before_nodes[i]
        /\ \A i \in {last.node_id, last.nn_id} :
              same_node_up_to_rotation(last.before_nodes[i], nodes_[i])
        /\ global_geometry_ = last.before_global

\* a round trip that gave node_id its ring back rotated
C2_Witness ==
    /\ last.op = "unflip_bond"
    /\ nodes_[last.node_id].nn_ids # last.before_nodes[last.node_id].nn_ids
    /\ same_cycle(last.before_nodes[last.node_id].nn_ids, nodes_[last.node_id].nn_ids)
    /\ global_geometry_ = last.before_global

(***************************************************************************)
(* C3  Ring symmetry: in every state reached by moves, flips (applied or   *)
(* not) and unflips, j is in the ring of i exactly when i is in the ring   *)
(* of j.                                                                   *)
(***************************************************************************)
C3_RingSymmetry ==
    \A i \in NodeIds : \A j \in NodeIds :
        is_member(nodes_[i].nn_ids, j) <=> is_member(nodes_[j].nn_ids, i)

\* a flip was applied: the new bond is in both rings, the old one in neither
C3_Witness ==
    /\ flip_applied
    /\ is_member(nodes_[last.bfd.common_nn_0].nn_ids, last.bfd.common_nn_1)
    /\ is_member(nodes_[last.bfd.common_nn_1].nn_ids, last.bfd.common_nn_0)
    /\ ~is_member(nodes_[last.node_id].nn_ids, last.nn_id)
    /\ ~is_member(nodes_[last.nn_id].nn_ids, last.node_id)

(***************************************************************************)
(* C4  Ring order: in every state reached from the ordered mesh, for every *)
(* bulk node i any two cyclically consecutive entries of its ring are      *)
(* neighbours of each other and of i.                                      *)
(***************************************************************************)
C4_RingOrder ==
    \A i \in BulkIds :
        LET ring == nodes_[i].nn_ids
        IN  \A k \in 1..Len(ring) :
                LET j == ring[k]
                    j_next == ring[(k % Len(ring)) + 1]
                IN  /\ is_member(nodes_[j].nn_ids, j_next)
                    /\ is_member(nodes_[j_next].nn_ids, j)
                    /\ is_member(nodes_[j].nn_ids, i)

\* a second applied flip, after an earlier call
C4_Witness ==
    /\ flip_applied
    /\ n_calls >= 2
    /\ is_member(nodes_[last.bfd.common_nn_0].nn_ids, last.bfd.common_nn_1)
    /\ C4_RingOrder

(***************************************************************************)
(* C5  Degree floor, as stated: in the spherical triangulation no node     *)
(* ever has fewer than 5 neighbours.                                       *)
(***************************************************************************)
C5_DegreeFloorFive ==
    triangulation_type = "SPHERICAL_TRIANGULATION" =>
        \A i \in NodeIds : Len(nodes_[i].nn_ids) >= 5

(***************************************************************************)
(* C5  Degree floor of the code: in the spherical triangulation no node    *)
(* ever has fewer than BOND_DONATION_CUTOFF = 4 neighbours; flip_bond      *)
(* refuses a bond for the degree of its donors exactly when node_id or     *)
(* nn_id has 4 neighbours or fewer, so a donor with 5 neighbours may give  *)
(* a bond away; and each donor of an applied flip had more than 4          *)
(* neighbours and loses exactly one.                                       *)
(***************************************************************************)
C5_DegreeFloorFour ==
    triangulation_type = "SPHERICAL_TRIANGULATION" =>
        /\ \A i \in NodeIds : Len(nodes_[i].nn_ids) >= 4
        /\ last.op = "flip_bond" =>
              (last.path = "degree" <=>
                  \E i \in {last.node_id, last.nn_id} :
                      Len(last.before_nodes[i].nn_ids) <= 4)
        /\ flip_applied =>
              \A i \in {last.node_id, last.nn_id} :
                  /\ Len(last.before_nodes[i].nn_ids) > 4
                  /\ Len(nodes_[i].nn_ids) = Len(last.before_nodes[i].nn_ids) - 1

\* a donor of the sphere went from 5 to 4 neighbours
C5_Witness ==
    /\ triangulation_type = "SPHERICAL_TRIANGULATION"
    /\ flip_applied
    /\ Len(last.before_nodes[last.node_id].nn_ids) = 5
    /\ Len(nodes_[last.node_id].nn_ids) = 4

(***************************************************************************)
(* C6  Donation guard: whenever flip_bond returns flipped = true, in the   *)
(* spherical and in the planar triangulation alike, node_id and nn_id each *)
(* had more than 4 neighbours before the call.                             *)
(***************************************************************************)
C6_DonationGuard ==
    flip_applied =>
        /\ Len(last.before_nodes[last.node_id].nn_ids) > 4
        /\ Len(last.before_nodes[last.nn_id].nn_ids) > 4

\* a flip was applied between two bulk nodes of the planar mesh
C6_Witness ==
    /\ triangulation_type = "EXPERIMENTAL_PLANAR_TRIANGULATION"
    /\ flip_applied
    /\ Len(last.before_nodes[last.node_id].nn_ids) > 4
    /\ Len(last.before_nodes[last.nn_id].nn_ids) > 4

\* squared length of the bond that flip_bond(node_id, nn_id) would create
\* in the mesh the last call started from
new_bond_length_square_of_last_call ==
    LET common_nns == previous_and_next_neighbour_global_ids(
                          last.before_nodes, last.node_id, last.nn_id)
    IN  norm_square(vec3_subtract(last.before_nodes[common_nns.j_m_1].pos,
                                  last.before_nodes[common_nns.j_p_1].pos))

(***************************************************************************)
(* C7  Icosahedron immobility, as stated: on the 12-node sphere every      *)
(* flip_bond call on a bond returns flipped = false, whatever the bounds.  *)
(***************************************************************************)
C7_IcosahedronNeverFlips ==
    last.op = "flip_bond" => ~last.bfd.flipped

(***************************************************************************)
(* C7  Icosahedron, the code: on the constructed 12-node sphere flip_bond  *)
(* on a bond returns flipped = true exactly when the squared length of the *)
(* new bond lies strictly between the two bounds; the degree of the donors *)
(* (5, more than the cutoff 4) never refuses the flip.                     *)
(***************************************************************************)
C7_IcosahedronFlipsWithinBounds ==
    last.op = "flip_bond" =>
        /\ last.path # "degree"
        /\ last.bfd.flipped <=>
              /\ new_bond_length_square_of_last_call > last.bounds[1]
              /\ new_bond_length_square_of_last_call < last.bounds[2]

\* the first flip on the constructed sphere was applied, both donors had 5
C7_Witness ==
    /\ triangulation_type = "SPHERICAL_TRIANGULATION"
    /\ flip_applied
    /\ n_calls = 1
    /\ Len(last.before_nodes[last.node_id].nn_ids) = 5
    /\ Len(last.before_nodes[last.nn_id].nn_ids) = 5
    /\ Cardinality(DOMAIN nodes_) = 12

(***************************************************************************)
(* C8  Common neighbour count: in every reachable state any two bulk nodes *)
(* that are neighbours of each other have exactly two common neighbours.   *)
(***************************************************************************)
C8_CommonNeighbourCount ==
    \A i \in BulkIds : \A j \in BulkIds :
        (is_member(nodes_[i].nn_ids, j) /\ is_member(nodes_[j].nn_ids, i)) =>
            Cardinality(ring_set(nodes_, i) \cap ring_set(nodes_, j)) = 2

\* the bond created by an applied flip has the two donors as its common
\* neighbours
C8_Witness ==
    /\ flip_applied
    /\ ring_set(nodes_, last.bfd.common_nn_0) \cap ring_set(nodes_, last.bfd.common_nn_1)
          = {last.node_id, last.nn_id}

(***************************************************************************)
(* C9  Failed flip, as stated: whenever flip_bond returns flipped = false  *)
(* (the rolled back flip included) every node (ring, distances, position,  *)
(* geometry) and the global geometry are exactly as before the call.       *)
(***************************************************************************)
C9_FailedFlipChangesNothing ==
    flip_refused =>
        /\ nodes_ = last.before_nodes
        /\ global_geometry_ = last.before_global

(***************************************************************************)
(* C9  Failed flip, the code: whenever flip_bond returns flipped = false   *)
(* the global geometry and every node other than node_id and nn_id are     *)
(* exactly as before the call; node_id and nn_id keep position and         *)
(* geometry and have the same ring as a cyclic sequence (after a roll back *)
(* nn_ids and nn_distances may come back rotated alike); without a roll    *)
(* back nothing at all changes.                                            *)
(***************************************************************************)
C9_FailedFlipUpToRotation ==
    flip_refused =>
        /\ global_geometry_ = last.before_global
        /\ \A i \in NodeIds \ {last.node_id, last.nn_id} : nodes_[i] = last.before_nodes[i]
        /\ \A i \in {last.node_id, last.nn_id} :
              same_node_up_to_rotation(last.before_nodes[i], nodes_[i])
        /\ last.path # "rollback" => nodes_ = last.before_nodes

\* a rolled back flip that gave a ring back rotated
C9_Witness ==
    /\ flip_refused
    /\ last.path = "rollback"
    /\ nodes_ # last.before_nodes
    /\ global_geometry_ = last.before_global

(***************************************************************************)
(* C10  Sentinel in the report: whenever flip_bond returns flipped = false *)
(* (the rolled back flip included) both common neighbour ids of the        *)
(* returned record are the sentinel VERY_LARGE_NUMBER_.                    *)
(***************************************************************************)
C10_SentinelOnEveryRefusal ==
    flip_refused =>
        /\ last.bfd.common_nn_0 = VERY_LARGE_NUMBER_
        /\ last.bfd.common_nn_1 = VERY_LARGE_NUMBER_

\* a rolled back flip that reports the two common neighbours
C10_RollbackReportsIds ==
    /\ flip_refused
    /\ last.path = "rollback"
    /\ last.bfd.common_nn_0 \in NodeIds
    /\ last.bfd.common_nn_1 \in NodeIds

\* the last call was flip_bond with two nodes that were not neighbours
last_call_was_on_a_non_bond ==
    /\ last.op = "flip_bond"
    /\ ~is_member(last.before_nodes[last.node_id].nn_ids, last.nn_id)
    /\ ~is_member(last.before_nodes[last.nn_id].nn_ids, last.node_id)

(***************************************************************************)
(* C11  Flip of a non-edge fails: when node_id and nn_id are not           *)
(* neighbours of each other, flip_bond returns flipped = false and leaves  *)
(* every ring as it was.  The code does not look whether nn_id is in the   *)
(* ring of node_id: std::find returns end(), the last and the first entry  *)
(* of the ring are taken for the common neighbours and, when the two nodes *)
(* have two common neighbours, the rewrite is done and kept.               *)
(***************************************************************************)
C11_NonEdgeFlipFails ==
    last_call_was_on_a_non_bond =>
        /\ ~last.bfd.flipped
        /\ \A i \in NodeIds : nodes_[i].nn_ids = last.before_nodes[i].nn_ids

ring_predecessor(ring, nn_id) ==
    ring[((find(ring, nn_id) + Len(ring) - 1) % Len(ring)) + 1]

ring_successor(ring, nn_id) ==
    ring[((find(ring, nn_id) + 1) % Len(ring)) + 1]

\* node_id, nn_id and the two neighbours of nn_id in the ring of node_id, for
\* the last flip_bond call, which was on a bond
quadrilateral_of_last_call ==
    { last.node_id, last.nn_id,
      ring_predecessor(last.before_nodes[last.node_id].nn_ids, last.nn_id),
      ring_successor(last.before_nodes[last.node_id].nn_ids, last.nn_id) }

(***************************************************************************)
(* C13  Planar boundary flips are refused: in a planar triangulation,      *)
(* flip_bond on a bond (node_id, nn_id) for which node_id, nn_id or one of *)
(* the two neighbours of nn_id in the ring of node_id is a boundary node   *)
(* returns flipped = false and changes no ring.                            *)
(***************************************************************************)
C13_BoundaryFlipsRefused ==
    ( /\ triangulation_type = "EXPERIMENTAL_PLANAR_TRIANGULATION"
      /\ last.op = "flip_bond"
      /\ is_member(last.before_nodes[last.node_id].nn_ids, last.nn_id)
      /\ quadrilateral_of_last_call \cap boundary_nodes_ids_set_ # {} )
    => /\ ~last.bfd.flipped
       /\ \A i \in NodeIds : nodes_[i].nn_ids = last.before_nodes[i].nn_ids

\* a refused flip of the bond (7, 2), whose end 2 is a boundary node while the
\* two neighbours of 2 in the ring of 7 are bulk nodes
C13_Witness ==
    /\ triangulation_type = "EXPERIMENTAL_PLANAR_TRIANGULATION"
    /\ last.op = "flip_bond"
    /\ last.path = "boundary"
    /\ last.nn_id \in boundary_nodes_ids_set_
    /\ (quadrilateral_of_last_call \ {last.nn_id}) \cap boundary_nodes_ids_set_ = {}
    /\ nodes_ = last.before_nodes

(***************************************************************************)
(* C14  Edge agreement: after move_node, flip_bond (applied or refused)    *)
(* and unflip_bond, every node has as many nn_distances as nn_ids, and     *)
(* nn_distances[k] is the position of nn_ids[k] minus the position of the  *)
(* node, for every k.                                                      *)
(***************************************************************************)
C14_EdgeAgreement ==
    \A i \in NodeIds :
        /\ Len(nodes_[i].nn_distances) = Len(nodes_[i].nn_ids)
        /\ \A k \in 1..Len(nodes_[i].nn_ids) :
              nodes_[i].nn_distances[k] =
                  <<nodes_[nodes_[i].nn_ids[k]].pos[1] - nodes_[i].pos[1],
                    nodes_[nodes_[i].nn_ids[k]].pos[2] - nodes_[i].pos[2],
                    nodes_[nodes_[i].nn_ids[k]].pos[3] - nodes_[i].pos[3]>>

\* an applied flip of a bond of a node that was moved before: the distance
\* vectors that the flip emplaced are measured from the moved position
C14_Witness ==
    /\ flip_applied
    /\ \E i \in {last.node_id, last.nn_id, last.bfd.common_nn_0, last.bfd.common_nn_1} :
          nodes_[i].pos # (IF triangulation_type = "SPHERICAL_TRIANGULATION"
                           THEN icosahedron_pos ELSE planar_pos)[i + 1]
    /\ is_member(nodes_[last.bfd.common_nn_0].nn_ids, last.bfd.common_nn_1)

\* the ring that results from emplacing new_value at the position that
\* anchor_id has in the ring
ring_with_emplaced(ring, anchor_id, new_value) ==
    [k \in 1..(Len(ring) + 1) |->
        IF k <= find(ring, anchor_id) THEN ring[k]
        ELSE IF k = find(ring, anchor_id) + 1 THEN new_value
        ELSE ring[k - 1]]

\* the ring without its entry old_value
ring_with_erased(ring, old_value) ==
    [k \in 1..(Len(ring) - 1) |->
        IF k <= find(ring, old_value) THEN ring[k] ELSE ring[k + 1]]

(***************************************************************************)
(* C15  Insertion points of the rewrite, as stated: an applied flip of the *)
(* bond (a, b) with common neighbours c- and c+ emplaces c+ into the ring  *)
(* of c- at the position of b, and c- into the ring of c+ at the position  *)
(* of a; a and b are erased from each other's rings.                       *)
(***************************************************************************)
C15_InsertionAtOppositeEnd ==
    flip_applied =>
        /\ nodes_[last.bfd.common_nn_0].nn_ids =
               ring_with_emplaced(last.before_nodes[last.bfd.common_nn_0].nn_ids,
                                  last.nn_id, last.bfd.common_nn_1)
        /\ nodes_[last.bfd.common_nn_1].nn_ids =
               ring_with_emplaced(last.before_nodes[last.bfd.common_nn_1].nn_ids,
                                  last.node_id, last.bfd.common_nn_0)
        /\ nodes_[last.node_id].nn_ids =
               ring_with_erased(last.before_nodes[last.node_id].nn_ids, last.nn_id)
        /\ nodes_[last.nn_id].nn_ids =
               ring_with_erased(last.before_nodes[last.nn_id].nn_ids, last.node_id)

(***************************************************************************)
(* C15  Insertion points of the rewrite, as coded: an applied flip of the  *)
(* bond (a, b) with common neighbours c- and c+ emplaces c+ into the ring  *)
(* of c- at the position of a, and c- into the ring of c+ at the position  *)
(* of b; a and b are erased from each other's rings.                       *)
(***************************************************************************)
C15_InsertionPoints ==
    flip_applied =>
        /\ nodes_[last.bfd.common_nn_0].nn_ids =
               ring_with_emplaced(last.before_nodes[last.bfd.common_nn_0].nn_ids,
                                  last.node_id, last.bfd.common_nn_1)
        /\ nodes_[last.bfd.common_nn_1].nn_ids =
               ring_with_emplaced(last.before_nodes[last.bfd.common_nn_1].nn_ids,
                                  last.nn_id, last.bfd.common_nn_0)
        /\ nodes_[last.node_id].nn_ids =
               ring_with_erased(last.before_nodes[last.node_id].nn_ids, last.nn_id)
        /\ nodes_[last.nn_id].nn_ids =
               ring_with_erased(last.before_nodes[last.nn_id].nn_ids, last.node_id)

\* an applied flip in which a is the first entry of the ring of c-, so that
\* c+ becomes the new first entry
C15_Witness ==
    /\ flip_applied
    /\ find(last.before_nodes[last.bfd.common_nn_0].nn_ids, last.node_id) = 0
    /\ nodes_[last.bfd.common_nn_0].nn_ids[1] = last.bfd.common_nn_1

(***************************************************************************)
(* C16  Displacement round trip: move_node(i, D) followed by               *)
(* move_node(i, -D) leaves every node (position, nn_ids, nn_distances,     *)
(* area, volume, curvature_vec, unit_bending_energy) and the global        *)
(* geometry as they were before the first of the two calls.                *)
(***************************************************************************)
C16_DisplacementRoundTrip ==
    last.op = "move_node_back" =>
        /\ nodes_ = last.before_nodes
        /\ global_geometry_ = last.before_global

\* a round trip on a mesh that earlier calls have changed, with a
\* displacement that moved the node
C16_Witness ==
    /\ last.op = "move_node_back"
    /\ last.displacement # <<0, 0, 0>>
    /\ n_calls >= 2
    /\ \E i \in NodeIds :
          nodes_[i].nn_ids # (IF triangulation_type = "SPHERICAL_TRIANGULATION"
                              THEN icosahedron_nn_ids ELSE planar_nn_ids)[i + 1]

(***************************************************************************)
(* C20  Proximity build: right after the constructor or make_verlet_list,  *)
(* for all nodes i and j, j is in the verlet_list of i exactly when i # j  *)
(* and the squared distance of the two is strictly less than the square of *)
(* the Verlet radius; each such j is there once, the relation is symmetric *)
(* and a second build without a move in between gives the same lists.      *)
(***************************************************************************)
C20_ProximityBuild ==
    last.op \in {"constructor", "make_verlet_list"} =>
        /\ \A i, j \in NodeIds :
              /\ count_in(nodes_[i].verlet_list, j) =
                     ( IF i # j /\
                          (nodes_[i].pos[1] - nodes_[j].pos[1]) * (nodes_[i].pos[1] - nodes_[j].pos[1])
                          + (nodes_[i].pos[2] - nodes_[j].pos[2]) * (nodes_[i].pos[2] - nodes_[j].pos[2])
                          + (nodes_[i].pos[3] - nodes_[j].pos[3]) * (nodes_[i].pos[3] - nodes_[j].pos[3])
                          < verlet_radius * verlet_radius
                       THEN 1 ELSE 0 )
              /\ count_in(nodes_[i].verlet_list, j) = count_in(nodes_[j].verlet_list, i)
        /\ \A i \in NodeIds :
              \A k \in 1..Len(nodes_[i].verlet_list) : nodes_[i].verlet_list[k] \in NodeIds
        /\ make_verlet_list(this_object).nodes_ = nodes_

\* a build after a move and with a new radius, which put some but not all
\* nodes into the list of the moved node and changed that list
C20_Witness ==
    /\ last.op = "make_verlet_list"
    /\ verlet_radius # verlet_radius_inp
    /\ \E i \in NodeIds :
          /\ nodes_[i].pos # (IF triangulation_type = "SPHERICAL_TRIANGULATION"
                              THEN icosahedron_pos ELSE planar_pos)[i + 1]
          /\ nodes_[i].verlet_list # <<>>
          /\ nodes_[i].verlet_list # last.before_nodes[i].verlet_list
          /\ Len(nodes_[i].verlet_list) < Cardinality(NodeIds) - 1

\* the squared distance from the node of the last update step to node j before
\* the step, and the one it has with the node displaced
distance_square_old_to(j) ==
    norm_square(vec3_subtract(last.before_nodes[j].pos,
                              last.before_nodes[last.node_id].pos))

distance_square_new_to(j) ==
    norm_square(vec3_subtract(vec3_subtract(last.before_nodes[j].pos,
                                            last.before_nodes[last.node_id].pos),
                              last.displacement))

ring_before_step == ring_set(last.before_nodes, last.node_id)

verlet_neighbours_before_step ==
    {last.before_nodes[last.node_id].verlet_list[k] :
        k \in 1..Len(last.before_nodes[last.node_id].verlet_list)}

verlet_neighbour_comes_too_close ==
    \E j \in verlet_neighbours_before_step :
        /\ distance_square_new_to(j) < last.bounds[1]
        /\ distance_square_old_to(j) > last.bounds[1]

\* what a refused move and a move that is made leave behind
move_step_effects ==
    /\ ~last.applied =>
          /\ nodes_ = last.before_nodes
          /\ global_geometry_ = last.before_global
          /\ last.energy_calls = 0
          /\ mc_updater.bond_length_move_rejection =
                 last.before_updater.bond_length_move_rejection + 1
    /\ last.applied =>
          /\ last.energy_calls = 2
          /\ mc_updater.bond_length_move_rejection =
                 last.before_updater.bond_length_move_rejection
          /\ nodes_[last.node_id].pos =
                 IF last.undone
                 THEN last.before_nodes[last.node_id].pos
                 ELSE vec3_add(last.before_nodes[last.node_id].pos, last.displacement)

\* C17 as stated: move_MC_updater refuses the move (mesh unchanged, energy
\* function not called, bond_length_move_rejection one higher) exactly when the
\* squared length of some bond of the node is inside
\* [min_bond_length_square, max_bond_length_square] before the move and above
\* the maximum or below the minimum after it, or some Verlet neighbour comes
\* closer than the minimum while it was farther before; otherwise the node is
\* displaced.
C17_CrossingFromInsideInterval ==
    last.op = "move_MC_updater" =>
        /\ ~last.applied <=>
              \/ \E j \in ring_before_step :
                    /\ distance_square_old_to(j) >= last.bounds[1]
                    /\ distance_square_old_to(j) <= last.bounds[2]
                    /\ \/ distance_square_new_to(j) > last.bounds[2]
                       \/ distance_square_new_to(j) < last.bounds[1]
              \/ verlet_neighbour_comes_too_close
        /\ move_step_effects

\* the test as move_MC_updater makes it: the move is refused exactly when the
\* squared length of some bond of the node is strictly below the maximum
\* before the move and above it after, or strictly above the minimum before
\* and below it after, or some Verlet neighbour comes closer than the minimum
\* while it was farther before
move_refused_for_one_bound_crossed ==
    last.op = "move_MC_updater" =>
        /\ ~last.applied <=>
              \/ \E j \in ring_before_step :
                    \/ /\ distance_square_new_to(j) > last.bounds[2]
                       /\ distance_square_old_to(j) < last.bounds[2]
                    \/ /\ distance_square_old_to(j) > last.bounds[1]
                       /\ distance_square_new_to(j) < last.bounds[1]
              \/ verlet_neighbour_comes_too_close
        /\ move_step_effects

\* a move is made that lengthens a bond which was exactly as long as the
\* maximum, after a move was refused
move_made_from_the_maximum ==
    /\ last.op = "move_MC_updater"
    /\ last.applied
    /\ \E j \in ring_before_step :
          /\ distance_square_old_to(j) = last.bounds[2]
          /\ distance_square_new_to(j) > last.bounds[2]
    /\ mc_updater.bond_length_move_rejection = 1

\* a move is refused for a Verlet neighbour alone, which is no neighbour in
\* the ring any more
move_refused_for_verlet_neighbour_only ==
    /\ last.op = "move_MC_updater"
    /\ ~last.applied
    /\ \E j \in verlet_neighbours_before_step \ ring_before_step :
          /\ distance_square_new_to(j) < last.bounds[1]
          /\ distance_square_old_to(j) > last.bounds[1]
    /\ \A j \in ring_before_step :
          /\ distance_square_new_to(j) >= last.bounds[1]
          /\ distance_square_new_to(j) <= last.bounds[2]

\* the last call was an update step that made its move or its flip
update_applied ==
    /\ last.op \in {"move_MC_updater", "flip_MC_updater"}
    /\ last.applied

\* E_new - E_old of the last update step: the energy before is that of the
\* global geometry the step started from, the energy after is the one the
\* updater measured
energy_change ==
    real_subtract(mc_updater.e_new,
                  energy_function(last.node_id, [global_geometry_ |-> last.before_global],
                                  prms))

\* the update of the last step is not in the mesh any more
update_is_gone ==
    IF last.op = "move_MC_updater"
    THEN nodes_[last.node_id].pos = last.before_nodes[last.node_id].pos
    ELSE is_member(nodes_[last.node_id].nn_ids, last.nn_id)

reversals_counted ==
    IF last.op = "move_MC_updater"
    THEN mc_updater.move_back - last.before_updater.move_back
    ELSE mc_updater.flip_back - last.before_updater.flip_back

update_without_gain_kept ==
    /\ update_applied
    /\ last.before_updater.kBT_ <= 0
    /\ energy_change = 0
    /\ ~update_is_gone

\* an update that raised the energy is undone at kBT = 0 and at kBT < 0
update_undone_when_greedy ==
    /\ update_applied
    /\ last.before_updater.kBT_ <= 0
    /\ energy_change > 0
    /\ update_is_gone

\* by how much the last call raised a counter of the updater
raised(counter) == mc_updater[counter] - last.before_updater[counter]

\* C19: every move_MC_updater raises move_attempt by exactly one and every
\* flip_MC_updater raises flip_attempt by exactly one, whatever the outcome;
\* one update step raises at most one of its rejection counter and its
\* reversal counter, so always
\* move_attempt >= bond_length_move_rejection + move_back and
\* flip_attempt >= bond_length_flip_rejection + flip_back; and a flip that is
\* not made always raises bond_length_flip_rejection.
C19_DriverCounters ==
    /\ last.op = "move_MC_updater" =>
          /\ raised("move_attempt") = 1
          /\ raised("flip_attempt") = 0
          /\ raised("bond_length_move_rejection") \in {0, 1}
          /\ raised("move_back") \in {0, 1}
          /\ raised("bond_length_move_rejection") + raised("move_back") <= 1
          /\ raised("bond_length_flip_rejection") + raised("flip_back") = 0
    /\ last.op = "flip_MC_updater" =>
          /\ raised("flip_attempt") = 1
          /\ raised("move_attempt") = 0
          /\ raised("bond_length_flip_rejection") \in {0, 1}
          /\ raised("flip_back") \in {0, 1}
          /\ raised("bond_length_flip_rejection") + raised("flip_back") <= 1
          /\ raised("bond_length_move_rejection") + raised("move_back") = 0
          /\ ~last.bfd.flipped => raised("bond_length_flip_rejection") = 1
    /\ mc_updater.move_attempt >=
          mc_updater.bond_length_move_rejection + mc_updater.move_back
    /\ mc_updater.flip_attempt >=
          mc_updater.bond_length_flip_rejection + mc_updater.flip_back

\* a flip is refused for a boundary node, which raises
\* bond_length_flip_rejection, after a move was refused
C19_Witness ==
    /\ last.op = "flip_MC_updater"
    /\ ~last.bfd.flipped
    /\ last.path = "boundary"
    /\ nodes_ = last.before_nodes
    /\ mc_updater.flip_attempt = 1
    /\ mc_updater.bond_length_flip_rejection = 1
    /\ mc_updater.move_attempt = 1
    /\ mc_updater.bond_length_move_rejection = 1

\* both reversal counters are raised in one run
both_reversals_counted ==
    /\ mc_updater.move_back = 1
    /\ mc_updater.flip_back = 1
    /\ mc_updater.move_attempt = 1
    /\ mc_updater.flip_attempt = 1

\* the last call is a flip_bond that was made on the bond which the flip
\* recorded in last.pending had made, with the nodes in the order of its
\* BondFlipData
second_flip_applied ==
    /\ flip_applied
    /\ last.pending.valid
    /\ last.node_id = last.pending.bfd.common_nn_0
    /\ last.nn_id = last.pending.bfd.common_nn_1

\* C21: if flip_bond(a, b) is made and reports (c-, c+), and a following
\* flip_bond(c-, c+) is made as well, the ring of every node is, as a cyclic
\* sequence, the one it was before the first flip: a and b are neighbours
\* again, c- and c+ are not.
C21_DoubleFlipRestoresRings ==
    second_flip_applied =>
        /\ \A i \in NodeIds :
              same_cycle(nodes_[i].nn_ids, last.pending.before_nodes[i].nn_ids)
        /\ is_member(nodes_[last.pending.node_id].nn_ids, last.pending.nn_id)
        /\ is_member(nodes_[last.pending.nn_id].nn_ids, last.pending.node_id)
        /\ ~is_member(nodes_[last.node_id].nn_ids, last.nn_id)
        /\ ~is_member(nodes_[last.nn_id].nn_ids, last.node_id)
        /\ {last.bfd.common_nn_0, last.bfd.common_nn_1} =
              {last.pending.node_id, last.pending.nn_id}

\* the second flip was made directly after the first, and the first had
\* taken a and b out of each other's rings
C21_Witness ==
    /\ second_flip_applied
    /\ last.pending.refused_since = 0
    /\ ~is_member(last.before_nodes[last.pending.node_id].nn_ids, last.pending.nn_id)
    /\ is_member(last.before_nodes[last.node_id].nn_ids, last.nn_id)
    /\ is_member(last.pending.before_nodes[last.pending.node_id].nn_ids,
                 last.pending.nn_id)

\* the second flip was made after a flip_bond call in between was refused
second_flip_after_refused_call ==
    /\ second_flip_applied
    /\ last.pending.refused_since = 1

\* C22: for every number n_iter >= 0 of subdivisions, triangulate_sphere_nodes
\* allocates 12 + 30 n + 20 n (n - 1) / 2 nodes, computed in the unsigned type
\* Index; for n_iter = 0, where n - 1 wraps around, these are exactly 12.
C22_SphereNodeCount ==
    last.op = "triangulate_sphere_nodes" =>
        LET n == last.args[1]
        IN  /\ last.result[1] < half_word \div 2
            /\ Index_value(last.result) =
                  IF n = 0 THEN 12 ELSE 12 + 30 * n + (20 * n * (n - 1)) \div 2

\* the nodes of the sphere without subdivisions are allocated
C22_Witness ==
    /\ last.op = "triangulate_sphere_nodes"
    /\ last.args[1] = 0
    /\ last.result = <<0, 12>>
    /\ Index_minus_one(Index_of(last.args[1])) = <<half_word - 1, half_word - 1>>

\* the node of the last emplace_nn_id or pop_nn call, after and before it
node_after == nodes_[last.node_id]

node_before == last.before_nodes[last.node_id]

\* nn_ids and nn_distances have the same length, and pop_nn of an id that is
\* not in nn_ids changes nothing
paired_and_pop_of_absent_id_is_nothing ==
    /\ last.op \in {"emplace_nn_id", "pop_nn"} =>
          Len(node_after.nn_ids) = Len(node_after.nn_distances)
    /\ last.op = "pop_nn" /\ ~is_member(node_before.nn_ids, last.nn_id) =>
          nodes_ = last.before_nodes

\* the id is entry loc_idx of nn_ids and its distance vector is entry loc_idx
\* of nn_distances
emplaced_at_loc_idx ==
    /\ last.args[1] < Len(node_after.nn_ids)
    /\ node_after.nn_ids[last.args[1] + 1] = last.nn_id
    /\ node_after.nn_distances[last.args[1] + 1] =
          vec3_subtract(EmplacedPos, node_after.pos)
    /\ Len(node_after.nn_ids) = Len(node_before.nn_ids) + 1

\* C23 as stated: after any sequence of emplace_nn_id (any id, any loc_idx, in
\* range or not) and pop_nn (id present or absent) on one node, nn_ids and
\* nn_distances have the same length; emplace_nn_id makes the id the entry at
\* loc_idx and its distance vector the entry at the same index of
\* nn_distances; pop_nn of an absent id changes nothing.
C23_EmplacedWhereverAsked ==
    /\ paired_and_pop_of_absent_id_is_nothing
    /\ last.op = "emplace_nn_id" => emplaced_at_loc_idx

\* C23, amended: after any such sequence nn_ids and nn_distances have the same
\* length; emplace_nn_id with loc_idx below the size of nn_ids makes the id
\* the entry at loc_idx and its distance vector the entry at the same index of
\* nn_distances, and with loc_idx at or beyond the size it changes nothing;
\* pop_nn of an absent id changes nothing.
C23_IdsAndDistancesPaired ==
    /\ paired_and_pop_of_absent_id_is_nothing
    /\ last.op = "emplace_nn_id" =>
          IF last.args[1] < Len(node_before.nn_ids)
          THEN emplaced_at_loc_idx
          ELSE nodes_ = last.before_nodes
    /\ last.op = "pop_nn" /\ is_member(node_before.nn_ids, last.nn_id) =>
          /\ Len(node_after.nn_ids) = Len(node_before.nn_ids) - 1
          /\ count_in(node_after.nn_ids, last.nn_id) =
                count_in(node_before.nn_ids, last.nn_id) - 1

\* as the third call, an id is emplaced in front of a ring of seven ids that
\* holds it already
C23_Witness ==
    /\ last.op = "emplace_nn_id"
    /\ last.args[1] = 0
    /\ emplaced_at_loc_idx
    /\ count_in(node_after.nn_ids, last.nn_id) = 2
    /\ Len(node_after.nn_ids) = 7
    /\ n_calls = 3

\* emplace_nn_id is called with the size of nn_ids for loc_idx
emplace_at_the_end_asked ==
    /\ last.op = "emplace_nn_id"
    /\ last.args[1] = Len(node_before.nn_ids)

RECURSIVE sum_of_weighted_positions(_, _)
\* the sum of area * pos over the first upto nodes
sum_of_weighted_positions(nodes, upto) ==
    IF upto = 0 THEN <<0, 0, 0>>
    ELSE vec3_add(sum_of_weighted_positions(nodes, upto - 1),
                  vec3_scale(nodes[upto - 1].area, nodes[upto - 1].pos))

RECURSIVE sum_of_areas(_, _)
sum_of_areas(nodes, upto) ==
    IF upto = 0 THEN 0 ELSE sum_of_areas(nodes, upto - 1) + nodes[upto - 1].area

\* the two vectors differ by no more than one unit in any component, which is
\* what the rounding of a quotient can make
same_up_to_rounding(v, w) ==
    \A k \in 1..3 : v[k] - w[k] \in {0 - 1, 0, 1}

\* C24: calculate_mass_center returns the average of the node positions
\* weighted by the node areas, the sum of area_i * pos_i divided by the sum of
\* area_i, also for a mesh whose node areas differ.
C24_AreaWeightedMassCenter ==
    last.op = "calculate_mass_center" =>
        same_up_to_rounding(
            last.result,
            vec3_div(vec3_scale(1000, sum_of_weighted_positions(nodes_, Cardinality(NodeIds))),
                     sum_of_areas(nodes_, Cardinality(NodeIds))))

\* what calculate_mass_center returns: the sum of the positions divided by the
\* number of nodes
mass_center_is_plain_average ==
    last.op = "calculate_mass_center" =>
        \A k \in 1..3 :
            /\ last.result[k] * Cardinality(NodeIds)
                  <= 1000 * sum_of_positions(nodes_, Cardinality(NodeIds))[k]
            /\ (last.result[k] + 1) * Cardinality(NodeIds)
                  > 1000 * sum_of_positions(nodes_, Cardinality(NodeIds))[k]

\* the mass center was calculated for a mesh whose node areas differ
mass_center_of_unequal_areas ==
    /\ last.op = "calculate_mass_center"
    /\ \E i, j \in NodeIds : nodes_[i].area # nodes_[j].area

\* C25: for all vectors x and y, x.cross(x) is the zero vector,
\* x.cross(y) + y.cross(x) is the zero vector, and x.cross(y) has the dot
\* product zero with x and with y.
C25_CrossProductLaws ==
    last.op = "cross" =>
        LET x == last.args[1]
            y == last.args[2]
        IN  /\ cross(x, x) = <<0, 0, 0>>
            /\ vec3_add(last.result, cross(y, x)) = <<0, 0, 0>>
            /\ dot(last.result, x) = 0
            /\ dot(last.result, y) = 0

\* the cross product of two vectors that are not parallel, none of whose
\* coordinates is zero
C25_Witness ==
    /\ last.op = "cross"
    /\ last.result # <<0, 0, 0>>
    /\ \A k \in 1..3 : last.args[1][k] # 0 /\ last.args[2][k] # 0 /\ last.result[k] # 0

RECURSIVE sum_of_degrees(_, _)
\* the sum of nn_ids.size() over the nodes 0 .. upto-1
sum_of_degrees(nodes, upto) ==
    IF upto = 0 THEN 0
    ELSE sum_of_degrees(nodes, upto - 1) + Len(nodes[upto - 1].nn_ids)

\* nn_ids.size() of node i after the last call minus that before it
degree_change(i) == Len(nodes_[i].nn_ids) - Len(last.before_nodes[i].nn_ids)

(***************************************************************************)
(* C26  Effect and frame of an applied flip: when flip_bond(a, b) returns  *)
(* flipped = true with common_nn_0 and common_nn_1, then a and b are not   *)
(* in each other's nn_ids, common_nn_0 and common_nn_1 are in each         *)
(* other's nn_ids, a and b have one neighbour fewer and common_nn_0 and    *)
(* common_nn_1 one more than before (the sum of all degrees is as before), *)
(* and the nn_ids of every node other than these four, every pos and the   *)
(* number of nodes are as before the call.                                 *)
(***************************************************************************)
C26_FlipEffectAndFrame ==
    flip_applied =>
        LET a == last.node_id
            b == last.nn_id
            c0 == last.bfd.common_nn_0
            c1 == last.bfd.common_nn_1
        IN  /\ Cardinality({a, b, c0, c1}) = 4
            /\ ~is_member(nodes_[a].nn_ids, b)
            /\ ~is_member(nodes_[b].nn_ids, a)
            /\ is_member(nodes_[c0].nn_ids, c1)
            /\ is_member(nodes_[c1].nn_ids, c0)
            /\ degree_change(a) = 0 - 1
            /\ degree_change(b) = 0 - 1
            /\ degree_change(c0) = 1
            /\ degree_change(c1) = 1
            /\ sum_of_degrees(nodes_, Cardinality(NodeIds))
                   = sum_of_degrees(last.before_nodes, Cardinality(NodeIds))
            /\ \A i \in NodeIds \ {a, b, c0, c1} :
                   nodes_[i].nn_ids = last.before_nodes[i].nn_ids
            /\ \A i \in NodeIds : nodes_[i].pos = last.before_nodes[i].pos
            /\ DOMAIN nodes_ = DOMAIN last.before_nodes

\* a flip was applied on a mesh that an earlier applied flip and a move had
\* changed, and one of its four nodes was in the earlier flip as well
C26_Witness ==
    /\ flip_applied
    /\ n_calls = 3
    /\ \E i \in NodeIds :
          last.before_nodes[i].pos # constructed(triangulation_type).nodes_[i].pos
    /\ \E i \in {last.node_id, last.nn_id, last.bfd.common_nn_0, last.bfd.common_nn_1} :
          Len(last.before_nodes[i].nn_ids)
              # Len(constructed(triangulation_type).nodes_[i].nn_ids)

\* the fields of node j that update_bulk_node_geometry and
\* update_boundary_node_geometry write
geometry_fields(nodes, j) ==
    <<nodes[j].area, nodes[j].volume, nodes[j].curvature_vec,
      nodes[j].unit_bending_energy, nodes[j].nn_distances>>

(***************************************************************************)
(* C27  Frame of a displacement: after move_node(i, D) the pos of i is the *)
(* one before plus D and every other pos is as before; nn_ids and          *)
(* verlet_list of every node are as before; area, volume, curvature_vec,   *)
(* unit_bending_energy (and nn_distances) are as before for every node     *)
(* that is neither i nor in the ring of i.                                 *)
(***************************************************************************)
C27_DisplacementFrame ==
    last.op = "move_node" =>
        /\ nodes_[last.node_id].pos
              = vec3_add(last.before_nodes[last.node_id].pos, last.displacement)
        /\ \A j \in NodeIds \ {last.node_id} : nodes_[j].pos = last.before_nodes[j].pos
        /\ \A j \in NodeIds :
              /\ nodes_[j].nn_ids = last.before_nodes[j].nn_ids
              /\ nodes_[j].verlet_list = last.before_nodes[j].verlet_list
        /\ \A j \in NodeIds \ ({last.node_id} \cup ring_set(nodes_, last.node_id)) :
              geometry_fields(nodes_, j) = geometry_fields(last.before_nodes, j)

\* a move after an applied flip that changed the ring of the moved node; the
\* move changed the geometry of the node and of a neighbour, there are nodes
\* outside its ring, and the Verlet lists are not empty
C27_Witness ==
    /\ last.op = "move_node"
    /\ n_calls >= 2
    /\ nodes_[last.node_id].nn_ids
          # constructed(triangulation_type).nodes_[last.node_id].nn_ids
    /\ geometry_fields(nodes_, last.node_id)
          # geometry_fields(last.before_nodes, last.node_id)
    /\ \E j \in ring_set(nodes_, last.node_id) :
          nodes_[j].area # last.before_nodes[j].area
    /\ NodeIds \ ({last.node_id} \cup ring_set(nodes_, last.node_id)) # {}
    /\ \E j \in NodeIds : nodes_[j].verlet_list # <<>>

\* every bond of the mesh has a squared length from min_bond_length_square
\* up to max_bond_length_square of the updater
bonds_within(nodes, mc) ==
    \A i \in DOMAIN nodes : \A j \in ring_set(nodes, i) :
        \E distance_square \in {norm_square(vec3_subtract(nodes[j].pos, nodes[i].pos))} :
            /\ distance_square >= mc.min_bond_length_square
            /\ distance_square <= mc.max_bond_length_square

\* C28 as stated: if every bond of the mesh the updater is constructed on has
\* a squared length within [min_bond_length_square, max_bond_length_square],
\* then so has every bond after any sequence of move_MC_updater and
\* flip_MC_updater calls.
C28_BondLengthsStayInBounds ==
    bonds_within(constructed(triangulation_type).nodes_, mc_updater) =>
        bonds_within(nodes_, mc_updater)

\* as long as no bond is exactly as long as a bound before a move, the bonds
\* stay within the bounds: a bond leaves the interval only by a
\* move_MC_updater step that is made although the bond is as long as a bound
\* before it and beyond that bound after it
bonds_leave_bounds_only_from_a_bound ==
    /\ last.op # "constructor"
    /\ bonds_within(last.before_nodes, mc_updater)
    /\ ~bonds_within(nodes_, mc_updater)
    => /\ last.op = "move_MC_updater"
       /\ last.applied
       /\ ~last.undone
       /\ \E j \in ring_before_step :
             \/ /\ distance_square_old_to(j) = last.bounds[2]
                /\ distance_square_new_to(j) > last.bounds[2]
             \/ /\ distance_square_old_to(j) = last.bounds[1]
                /\ distance_square_new_to(j) < last.bounds[1]

\* a bond is longer than the maximum after a move that was made and kept, on
\* a mesh whose bonds were all within the bounds before
bond_beyond_maximum_after_kept_move ==
    /\ last.op = "move_MC_updater"
    /\ last.applied
    /\ ~last.undone
    /\ bonds_within(constructed(triangulation_type).nodes_, mc_updater)
    /\ bonds_within(last.before_nodes, mc_updater)
    /\ ~bonds_within(nodes_, mc_updater)

\* the energy function on the mesh with the global geometry g
energy_of(g) == energy_function(last.node_id, [global_geometry_ |-> g], prms)

\* the last call was an update step at kBT = 0
greedy_step ==
    /\ last.op \in {"move_MC_updater", "flip_MC_updater"}
    /\ last.before_updater.kBT_ = 0

(***************************************************************************)
(* C29  Greedy mode never raises the energy: after a move_MC_updater or    *)
(* flip_MC_updater call at kBT = 0 the energy function gives, on the mesh  *)
(* as the call leaves it, a finite value that is at most the value it      *)
(* gives on the mesh as the call found it (refused, kept or undone).       *)
(***************************************************************************)
C29_GreedyNeverRaisesEnergy ==
    greedy_step =>
        /\ energy_of(global_geometry_) # not_finite
        /\ energy_of(last.before_global) # not_finite
        /\ energy_of(global_geometry_) <= energy_of(last.before_global)

\* at kBT = 0 a step was undone for raising the energy, after a step that
\* lowered the energy and was kept
C29_Witness ==
    /\ greedy_step
    /\ last.applied
    /\ last.undone
    /\ mc_updater.e_new > mc_updater.e_old
    /\ energy_of(global_geometry_) = energy_of(last.before_global)
    /\ n_calls = 2
    /\ energy_of(last.before_global)
          < energy_of(constructed(triangulation_type).global_geometry_)

\* at kBT = 0 a flip was made and undone for raising the energy
greedy_flip_undone ==
    /\ greedy_step
    /\ last.op = "flip_MC_updater"
    /\ last.applied
    /\ last.undone
    /\ mc_updater.e_new > mc_updater.e_old
    /\ energy_of(global_geometry_) = energy_of(last.before_global)

\* the last call was the unflip_bond of a flip that was followed by refused
\* flip_bond calls only
pending_unflipped == last.op = "unflip_bond" /\ last.pending.valid

\* C30 as stated: when flip_bond(a, b) returned flipped = true, then one or
\* more flip_bond calls on other bonds returned flipped = false (also those
\* refused after the rewrite and the rewrite back), and then unflip_bond(a, b,
\* bfd) is called, the global geometry is the one before the first flip and is
\* the sum over the nodes.
C30_RefusedFlipsKeepUnflip ==
    pending_unflipped =>
        /\ global_geometry_ = last.before_global
        /\ global_geometry_ = sum_of_nodes(nodes_, Cardinality(NodeIds))

\* the same when none of the refused calls reached the rewrite: those calls
\* return before pre_update_geometry is written; and in every case the nodes
\* are as before the first flip, up to the rotation of their rings
unflip_after_refusals_without_rewrite ==
    pending_unflipped =>
        /\ ~last.pending.rolled_back =>
              /\ global_geometry_ = last.before_global
              /\ global_geometry_ = sum_of_nodes(nodes_, Cardinality(NodeIds))
        /\ \A i \in NodeIds : same_node_up_to_rotation(nodes_[i], last.before_nodes[i])

\* an unflip after a call that was refused after the rewrite and the rewrite
\* back leaves a global geometry that is not the sum over the nodes
unflip_after_rollback_off_the_sum ==
    /\ pending_unflipped
    /\ last.pending.rolled_back
    /\ global_geometry_ # last.before_global
    /\ global_geometry_ # sum_of_nodes(nodes_, Cardinality(NodeIds))

\* an unflip after two refused calls, none of which reached the rewrite
unflip_after_two_plain_refusals ==
    /\ pending_unflipped
    /\ ~last.pending.rolled_back
    /\ last.pending.refused_since >= 2

====
